---------------------------- MODULE Spec2Model ----------------------------
(***************************************************************************)
(* MySoilMate: the plant catalogue's entity store, its import scripts and  *)
(* the listing pipeline (filter -> sort -> paginate) behind GET            *)
(* /api/plants.                                                            *)
(*                                                                         *)
(* Texts are sequences of one-character strings, so that split, trim,      *)
(* toLowerCase, includes and parseInt are computed character by character  *)
(* as the JavaScript does.  An object is a record; a property that is      *)
(* undefined (or a column that is NULL) is a key missing from the record.  *)
(***************************************************************************)
EXTENDS Integers, Sequences, FiniteSets, TLC

VARIABLES
    plants,             \* table plants: rows in heap order
    plantSeq,           \* the serial sequence behind plants.id
    zones,              \* table zones: zones[i] is the label of the zone with id i
    bloomSeasons,       \* table bloom_seasons: bloomSeasons[i] is season i's label
    plantZones,         \* table plant_zones: rows [plantId, zoneId]
    plantBloomSeasons,  \* table plant_bloom_seasons: rows [plantId, bloomSeasonId]
    plantLightLevels,   \* table plant_light_levels: rows [plantId, lightLevelId]
    uploaded,           \* uploadFromCSV: the records its loop has gone through
    calls,              \* getPlants calls that have not returned yet, oldest first
    importers,          \* the runs of uploadFromCSV: where each is, and its locals
    garden,             \* GardenDesignerPanel: its React state
    scroll,             \* useInfiniteScroll: the query's state and the requests sent
    responses           \* HTTP / call results on their way to the caller (at most one)

vars == <<plants, plantSeq, zones, bloomSeasons, plantZones, plantBloomSeasons,
          plantLightLevels, uploaded, calls, importers, garden, scroll, responses>>

dbVars == <<plants, plantSeq, zones, bloomSeasons, plantZones, plantBloomSeasons,
            plantLightLevels, uploaded>>

---------------------------------------------------------------------------
(* Bounds of the model *)

MaxPlants == 3
MaxLightLinks == 4
MaxPage == 4
MaxLimit == 3
MaxCalls == 2
MaxJoinRows == 10

---------------------------------------------------------------------------
(* JavaScript strings and numbers *)

UpperChars == <<"A","B","C","D","E","F","G","H","I","J","K","L","M",
                "N","O","P","Q","R","S","T","U","V","W","X","Y","Z">>
LowerChars == <<"a","b","c","d","e","f","g","h","i","j","k","l","m",
                "n","o","p","q","r","s","t","u","v","w","x","y","z">>
DigitChars == <<"0","1","2","3","4","5","6","7","8","9">>

Has(obj, key) == key \in DOMAIN obj

Min(a, b) == IF a <= b THEN a ELSE b
Max(a, b) == IF a >= b THEN a ELSE b

\* position of the first occurrence of c in s, 0 when there is none
IndexOf(c, s) ==
    IF \E i \in 1..Len(s) : s[i] = c
    THEN CHOOSE i \in 1..Len(s) : s[i] = c /\ \A j \in 1..(i-1) : s[j] # c
    ELSE 0

ToLowerChar(c) ==
    LET i == IndexOf(c, UpperChars) IN IF i > 0 THEN LowerChars[i] ELSE c

ToLowerCase(t) == [i \in 1..Len(t) |-> ToLowerChar(t[i])]

\* String.prototype.includes: s occurs in t as a contiguous run
Includes(t, s) ==
    \E i \in 0..(Len(t) - Len(s)) : SubSeq(t, i + 1, i + Len(s)) = s

\* Array.prototype.includes
ArrayIncludes(arr, v) == \E i \in 1..Len(arr) : arr[i] = v

RECURSIVE Split(_, _)
Split(t, sep) ==
    LET i == IndexOf(sep, t) IN
    IF i = 0 THEN <<t>>
    ELSE <<SubSeq(t, 1, i - 1)>> \o Split(SubSeq(t, i + 1, Len(t)), sep)

RECURSIVE Trim(_)
Trim(t) ==
    IF t = <<>> THEN t
    ELSE IF Head(t) = " " THEN Trim(Tail(t))
    ELSE IF t[Len(t)] = " " THEN Trim(SubSeq(t, 1, Len(t) - 1))
    ELSE t

TrimAll(s) == [i \in 1..Len(s) |-> Trim(s[i])]

\* JavaScript numbers that are not ordinary integers
Num(n) == [k |-> "num", v |-> n]
NaN == [k |-> "nan", v |-> 0]
PosInfinity == [k |-> "inf", v |-> 1]
NegInfinity == [k |-> "inf", v |-> -1]

RECURSIVE DigitsValue(_, _)
DigitsValue(t, acc) ==
    IF t = <<>> \/ IndexOf(Head(t), DigitChars) = 0 THEN acc
    ELSE DigitsValue(Tail(t), acc * 10 + (IndexOf(Head(t), DigitChars) - 1))

\* parseInt(t): leading blanks, an optional sign, then the longest run of digits
ParseInt(t) ==
    LET s == Trim(t)
        neg == s # <<>> /\ Head(s) = "-"
        body == IF s # <<>> /\ Head(s) \in {"-", "+"} THEN Tail(s) ELSE s
    IN  IF body = <<>> \/ IndexOf(Head(body), DigitChars) = 0 THEN NaN
        ELSE Num((IF neg THEN -1 ELSE 1) * DigitsValue(body, 0))

\* n.toString() for n >= 0
RECURSIVE IntText(_)
IntText(n) ==
    IF n < 10 THEN <<DigitChars[n + 1]>>
    ELSE IntText(n \div 10) \o <<DigitChars[(n % 10) + 1]>>

---------------------------------------------------------------------------
(* The texts the scripts and the tests of the model use *)

SP == <<" ">>
Wfull == <<"f","u","l","l">>
Wsun == <<"s","u","n">>
Wshade == <<"s","h","a","d","e">>
Wmostly == <<"m","o","s","t","l","y">>
Whalf == <<"h","a","l","f">>
Wpartial == <<"p","a","r","t","i","a","l">>
Wdeep == <<"d","e","e","p">>
Cap(w) == <<UpperChars[IndexOf(Head(w), LowerChars)]>> \o Tail(w)

FullSun == Cap(Wfull) \o SP \o Cap(Wsun)                   \* 'Full Sun'
MostlySun == Cap(Wmostly) \o SP \o Cap(Wsun)               \* 'Mostly Sun'
HalfSunHalfShade ==                                        \* 'Half Sun / Half Shade'
    Cap(Whalf) \o SP \o Cap(Wsun) \o SP \o <<"/">> \o SP \o Cap(Whalf) \o SP \o Cap(Wshade)
MostlyShade == Cap(Wmostly) \o SP \o Cap(Wshade)           \* 'Mostly Shade'
FullShade == Cap(Wfull) \o SP \o Cap(Wshade)               \* 'Full Shade'

Low == <<"l","o","w">>
Medium == <<"m","e","d","i","u","m">>
High == <<"h","i","g","h">>
Short == <<"S","h","o","r","t">>
Tall == <<"T","a","l","l">>
Spring == <<"S","p","r","i","n","g">>
Summer == <<"S","u","m","m","e","r">>
Comma == <<",">>
SortName == <<"n","a","m","e">>
SortLight == <<"l","i","g","h","t">>
SortZone == <<"z","o","n","e">>

\* table light_levels as the migration script creates it: the level with id i
lightLevels == <<FullSun, MostlySun, HalfSunHalfShade, MostlyShade, FullShade>>

\* The rows of the CSV file the import scripts read (columns: true, so every
\* column is a string, the empty string when the cell is empty).
CsvRecords == <<
    [name |-> <<"b">>, scientific_name |-> <<"R","o">>, description |-> <<"x">>,
     light_level |-> FullSun \o Comma \o SP \o MostlySun, water_needs |-> Low,
     height_text |-> Tall,
     grow_zones |-> <<"6","a",","," ","6","b">>,
     bloom_seasons |-> Spring \o Comma \o Summer],
    [name |-> <<"A">>, scientific_name |-> <<"y">>, description |-> <<"r","o">>,
     light_level |-> Low, water_needs |-> High,
     height_text |-> <<>>,
     grow_zones |-> <<"1","0","a",","," ","5","a">>,
     bloom_seasons |-> <<>>],
    [name |-> <<"a">>, scientific_name |-> <<"z">>, description |-> <<"z">>,
     light_level |-> FullShade, water_needs |-> Low,
     height_text |-> Short,
     grow_zones |-> <<"6">>,
     bloom_seasons |-> Summer] >>

\* Bodies of POST /api/plants (already of the shape insertPlantSchema accepts)
PlantPayloads == {
    [name |-> <<"B">>, scientificName |-> <<"a","b">>, description |-> <<"y">>,
     lightLevel |-> Low, waterNeeds |-> Medium, heightText |-> Tall] }

---------------------------------------------------------------------------
(* Entity store *)

\* db.select().from(table).where(eq(column, value)): id of the first row, 0 if none
FindId(table, value) == IndexOf(value, table)

\* csv-upload.ts, step 2 / step 3: for each value, find or create the reference
\* row, then insert the join row.  st = [ref |-> reference table, links |-> join table]
RECURSIVE FindOrCreateAndLink(_, _, _, _)
FindOrCreateAndLink(st, plantId, values, idKey) ==
    IF values = <<>> THEN st
    ELSE LET v == Head(values) IN
         IF v = <<>> THEN FindOrCreateAndLink(st, plantId, Tail(values), idKey)
         ELSE LET ref == IF FindId(st.ref, v) = 0 THEN Append(st.ref, v) ELSE st.ref
                  row == (idKey :> FindId(ref, v)) @@ [plantId |-> plantId]
              IN  FindOrCreateAndLink([ref |-> ref, links |-> Append(st.links, row)],
                                      plantId, Tail(values), idKey)

\* csv-upload.ts: `record.x || null`
OrNull(v) == IF v = <<>> THEN <<>> ELSE <<v>>

PlantRow(id, name, scientificName, description, lightLevel, waterNeeds, heightText) ==
    LET base == [id |-> id, name |-> name, scientificName |-> scientificName,
                 description |-> description, lightLevel |-> lightLevel,
                 waterNeeds |-> waterNeeds]
    IN  IF heightText = <<>> THEN base ELSE base @@ [heightText |-> heightText[1]]

\* csv-upload.ts uploadFromCSV, one turn of `for (const record of records)`:
\* the record after the last one uploaded; once the file is through, the next
\* run of the script starts again at its first record
UploadRecord ==
    /\ responses = <<>>
    /\ plantSeq < MaxPlants
    /\ LET record == CsvRecords[(uploaded % Len(CsvRecords)) + 1]
           growZones == IF record.grow_zones # <<>>
                        THEN TrimAll(Split(record.grow_zones, ",")) ELSE <<>>
           seasons == IF record.bloom_seasons # <<>>
                      THEN TrimAll(Split(record.bloom_seasons, ",")) ELSE <<>>
           id == plantSeq + 1
           z == FindOrCreateAndLink([ref |-> zones, links |-> plantZones],
                                    id, growZones, "zoneId")
           b == FindOrCreateAndLink([ref |-> bloomSeasons, links |-> plantBloomSeasons],
                                    id, seasons, "bloomSeasonId")
       IN  /\ plants' = Append(plants,
                 PlantRow(id, record.name, record.scientific_name, record.description,
                          record.light_level, record.water_needs,
                          OrNull(record.height_text)))
           /\ plantSeq' = id
           /\ zones' = z.ref
           /\ plantZones' = z.links
           /\ bloomSeasons' = b.ref
           /\ plantBloomSeasons' = b.links
           /\ uploaded' = (uploaded % Len(CsvRecords)) + 1
    /\ UNCHANGED <<plantLightLevels, responses, calls, importers, garden, scroll>>

\* DatabaseStorage.createPlant, reached through POST /api/plants
CreatePlant(insertPlant) ==
    /\ responses = <<>>
    /\ plantSeq < MaxPlants
    /\ plants' = Append(plants,
          PlantRow(plantSeq + 1, insertPlant.name, insertPlant.scientificName,
                   insertPlant.description, insertPlant.lightLevel,
                   insertPlant.waterNeeds,
                   IF Has(insertPlant, "heightText")
                   THEN <<insertPlant.heightText>> ELSE <<>>))
    /\ plantSeq' = plantSeq + 1
    /\ UNCHANGED <<zones, bloomSeasons, plantZones, plantBloomSeasons,
                   plantLightLevels, uploaded, responses, calls, importers, garden, scroll>>

\* populate script, mapLightLevel: the five-level names a light text stands for
mapLightLevel(lightText) ==
    IF lightText = <<>> THEN <<HalfSunHalfShade>>
    ELSE LET light == ToLowerCase(lightText)
             has(w) == Includes(light, w)
         IN  IF has(Wfull \o SP \o Wsun) /\ has(Wmostly \o SP \o Wsun)
                 THEN <<FullSun, MostlySun>>
             ELSE IF has(Wfull \o SP \o Wsun) \/ has(Wsun \o <<"n","y">>)
                 THEN <<FullSun>>
             ELSE IF has(Wmostly \o SP \o Wsun) \/ has(Wpartial \o SP \o Wshade)
                 THEN <<MostlySun>>
             ELSE IF has(Whalf) \/ has(Wpartial)
                 THEN <<HalfSunHalfShade>>
             ELSE IF has(Wmostly \o SP \o Wshade) \/ has(Wshade)
                 THEN <<MostlyShade>>
             ELSE IF has(Wfull \o SP \o Wshade) \/ has(Wdeep \o SP \o Wshade)
                 THEN <<FullShade>>
             ELSE <<HalfSunHalfShade>>

\* the join rows the populate script inserts for one plant
RECURSIVE LightLinksFor(_, _)
LightLinksFor(plantId, levelNames) ==
    IF levelNames = <<>> THEN <<>>
    ELSE LET id == FindId(lightLevels, Head(levelNames)) IN
         (IF id = 0 THEN <<>> ELSE <<[plantId |-> plantId, lightLevelId |-> id]>>)
         \o LightLinksFor(plantId, Tail(levelNames))

\* records.find(r => r.name === plant.name): index of the first match, 0 if none
CsvRecordFor(name) ==
    IF \E i \in 1..Len(CsvRecords) : CsvRecords[i].name = name
    THEN CHOOSE i \in 1..Len(CsvRecords) :
            /\ CsvRecords[i].name = name
            /\ \A j \in 1..(i-1) : CsvRecords[j].name # name
    ELSE 0

RECURSIVE PopulateFrom(_, _)
PopulateFrom(rows, links) ==
    IF rows = <<>> THEN links
    ELSE LET plant == Head(rows)
             r == CsvRecordFor(plant.name)
             names == IF r = 0 THEN <<HalfSunHalfShade>>
                      ELSE mapLightLevel(CsvRecords[r].light_level)
         IN  PopulateFrom(Tail(rows), links \o LightLinksFor(plant.id, names))

\* the populate script, one run over every plant of the table
PopulatePlantLightLevels ==
    /\ responses = <<>>
    /\ plants # <<>>
    /\ LET links == PopulateFrom(plants, plantLightLevels) IN
       /\ Len(links) <= MaxLightLinks
       /\ plantLightLevels' = links
    /\ UNCHANGED <<plants, plantSeq, zones, bloomSeasons, plantZones,
                   plantBloomSeasons, uploaded, responses, calls, importers, garden, scroll>>

---------------------------------------------------------------------------
(* uploadFromCSV statement by statement: every `await db...` is a statement *)
(* of its own, and between two of them another run of the script can act    *)

\* the runs of the script that are under way at the same time
Importers == {1, 2}

\* a run before its first statement
ImporterAtStart ==
    [pc |-> "insertPlant", record |-> 1, plantId |-> 0, loop |-> "zones",
     todo |-> <<>>, bloomSeasons |-> <<>>, ref |-> 0]

\* where a run goes after a join row (or after the plant): `if (!v) continue`
\* skips the empty values, the zones loop is followed by the seasons loop, the
\* seasons loop by the next record, the last record by the end of the script
RECURSIVE Advance(_)
Advance(im) ==
    IF im.todo # <<>>
    THEN IF Head(im.todo) = <<>>
         THEN Advance([im EXCEPT !.todo = Tail(im.todo)])
         ELSE [im EXCEPT !.pc = "select", !.ref = 0]
    ELSE IF im.loop = "zones"
    THEN Advance([im EXCEPT !.loop = "seasons", !.todo = im.bloomSeasons,
                            !.bloomSeasons = <<>>])
    ELSE [im EXCEPT !.pc = IF im.record = Len(CsvRecords) THEN "done" ELSE "insertPlant",
                    !.record = im.record + 1, !.plantId = 0, !.loop = "zones",
                    !.ref = 0]

\* variant: the plant row is held back until the record is through
InsertedPlantsHeldBack(table, row) == table

\* await db.insert(plants).values({...}).returning(): a statement of its own,
\* in no transaction, so the row is in the table as soon as it returns
InsertedPlants(table, row) == Append(table, row)

\* variant: the column has no unique constraint
UniqueViolationNever(table, value) == FALSE

\* text("zone").notNull().unique(): an insert of a label the table holds fails
UniqueViolation(table, value) == FindId(table, value) # 0

\* 1. Insert the plant
ImportInsertPlant(p) ==
    /\ importers[p].pc = "insertPlant"
    /\ plantSeq < MaxPlants
    /\ LET record == CsvRecords[importers[p].record]
           growZones == IF record.grow_zones # <<>>
                        THEN TrimAll(Split(record.grow_zones, ",")) ELSE <<>>
           seasons == IF record.bloom_seasons # <<>>
                      THEN TrimAll(Split(record.bloom_seasons, ",")) ELSE <<>>
           id == plantSeq + 1
       IN  /\ plants' = InsertedPlants(plants,
                 PlantRow(id, record.name, record.scientific_name, record.description,
                          record.light_level, record.water_needs,
                          OrNull(record.height_text)))
           /\ plantSeq' = id
           /\ importers' = [importers EXCEPT ![p] =
                 Advance([importers[p] EXCEPT !.plantId = id, !.loop = "zones",
                                              !.todo = growZones,
                                              !.bloomSeasons = seasons])]
    /\ UNCHANGED <<zones, bloomSeasons, plantZones, plantBloomSeasons,
                   plantLightLevels, uploaded, calls, responses,
                   garden, scroll>>

\* let [zone] = await db.select().from(zones).where(eq(zones.zone, zoneValue))
ImportSelect(p) ==
    /\ importers[p].pc = "select"
    /\ LET table == IF importers[p].loop = "zones" THEN zones ELSE bloomSeasons
           found == FindId(table, Head(importers[p].todo))
       IN  importers' = [importers EXCEPT ![p].ref = found,
                                          ![p].pc = IF found = 0 THEN "insert" ELSE "link"]
    /\ UNCHANGED <<dbVars, calls, responses,
                   garden, scroll>>

\* [zone] = await db.insert(zones).values({ zone: zoneValue }).returning(); when
\* the insert fails, the catch around the whole script logs and exits
ImportInsert(p) ==
    /\ importers[p].pc = "insert"
    /\ LET value == Head(importers[p].todo)
           table == IF importers[p].loop = "zones" THEN zones ELSE bloomSeasons
       IN  IF UniqueViolation(table, value)
           THEN /\ importers' = [importers EXCEPT ![p].pc = "exited"]
                /\ UNCHANGED <<zones, bloomSeasons>>
           ELSE /\ importers' = [importers EXCEPT ![p].ref = Len(table) + 1,
                                                  ![p].pc = "link"]
                /\ zones' = IF importers[p].loop = "zones"
                            THEN Append(zones, value) ELSE zones
                /\ bloomSeasons' = IF importers[p].loop = "seasons"
                                   THEN Append(bloomSeasons, value) ELSE bloomSeasons
    /\ UNCHANGED <<plants, plantSeq, plantZones, plantBloomSeasons, plantLightLevels,
                   uploaded, calls, responses,
                   garden, scroll>>

\* await db.insert(plantZones).values({ plantId, zoneId }), and on to the next value
ImportLink(p) ==
    /\ importers[p].pc = "link"
    /\ plantZones' =
          IF importers[p].loop = "zones"
          THEN Append(plantZones, [plantId |-> importers[p].plantId,
                                   zoneId |-> importers[p].ref])
          ELSE plantZones
    /\ plantBloomSeasons' =
          IF importers[p].loop = "seasons"
          THEN Append(plantBloomSeasons, [plantId |-> importers[p].plantId,
                                          bloomSeasonId |-> importers[p].ref])
          ELSE plantBloomSeasons
    /\ importers' = [importers EXCEPT ![p] =
          Advance([importers[p] EXCEPT !.todo = Tail(importers[p].todo)])]
    /\ UNCHANGED <<plants, plantSeq, zones, bloomSeasons, plantLightLevels,
                   uploaded, calls, responses,
                   garden, scroll>>

\* the process is stopped from outside (a signal, a lost connection) while it
\* waits for a statement
ImportKilled(p) ==
    /\ importers[p].pc \in {"insertPlant", "select", "insert", "link"}
    /\ importers' = [importers EXCEPT ![p].pc = "killed"]
    /\ UNCHANGED <<dbVars, calls, responses,
                   garden, scroll>>

---------------------------------------------------------------------------
(* The fix scripts: fixZones and fixAllBloomSeasons add join rows for the   *)
(* plants that are in the table, from the same CSV file                     *)

Wspring == ToLowerCase(Spring)
Wsummer == ToLowerCase(Summer)
Wfall == <<"f","a","l","l">>
Wautumn == <<"a","u","t","u","m","n">>
Wwinter == <<"w","i","n","t","e","r">>
Fall == Cap(Wfall)
Winter == Cap(Wwinter)

\* /^\d+$/.test(t)
AllDigits(t) == t # <<>> /\ \A i \in 1..Len(t) : IndexOf(t[i], DigitChars) > 0

\* [...new Set(seq)]: the first occurrence of every value, in order
Unique(seq) ==
    LET firsts == {i \in 1..Len(seq) : \A j \in 1..(i - 1) : seq[j] # seq[i]}
        before(i) == Cardinality({j \in firsts : j < i})
    IN  [n \in 1..Cardinality(firsts) |->
            seq[CHOOSE i \in firsts : before(i) = n - 1]]

\* parseBloomSeasons, the loop over the comma-separated list
RECURSIVE SeasonsOfList(_)
SeasonsOfList(seasonList) ==
    IF seasonList = <<>> THEN <<>>
    ELSE LET season == Head(seasonList) IN
         (IF Includes(season, Wspring) THEN <<Spring>>
          ELSE IF Includes(season, Wsummer) THEN <<Summer>>
          ELSE IF Includes(season, Wfall) \/ Includes(season, Wautumn) THEN <<Fall>>
          ELSE IF Includes(season, Wwinter) THEN <<Winter>>
          ELSE <<>>)
         \o SeasonsOfList(Tail(seasonList))

\* parseBloomSeasons(bloomSeasonsText, bloomTimeText) of the bloom-season script
parseBloomSeasons(bloomSeasonsText, bloomTimeText) ==
    LET listed == IF Trim(bloomSeasonsText) # <<>>
                  THEN SeasonsOfList(TrimAll(Split(ToLowerCase(bloomSeasonsText), ",")))
                  ELSE <<>>
        text == ToLowerCase(bloomTimeText)
        seasons ==
            IF listed = <<>> /\ bloomTimeText # <<>>
            THEN (IF Includes(text, Wspring) THEN <<Spring>> ELSE <<>>)
                 \o (IF Includes(text, Wsummer) THEN <<Summer>> ELSE <<>>)
                 \o (IF Includes(text, Wfall) \/ Includes(text, Wautumn)
                     THEN <<Fall>> ELSE <<>>)
                 \o (IF Includes(text, Wwinter) THEN <<Winter>> ELSE <<>>)
            ELSE listed
    IN  IF seasons # <<>> THEN Unique(seasons) ELSE <<Summer>>

\* (r.name || '').trim().replace(/[""]/g, '')
CsvName(name) == SelectSeq(Trim(name), LAMBDA c : c # "\"")

\* records.find(r => csvName === plant.name): index of the first match, 0 if none
CsvRecordNamed(name) ==
    IF \E i \in 1..Len(CsvRecords) : CsvName(CsvRecords[i].name) = name
    THEN CHOOSE i \in 1..Len(CsvRecords) :
            /\ CsvName(CsvRecords[i].name) = name
            /\ \A j \in 1..(i - 1) : CsvName(CsvRecords[j].name) # name
    ELSE 0

\* the inner loop of fixAllBloomSeasons: a select by label and, when the season
\* is there, a plain insert; the insert cannot fail as a duplicate, the table
\* has no unique key but its id
RECURSIVE SeasonLinksFor(_, _)
SeasonLinksFor(plantId, seasonNames) ==
    IF seasonNames = <<>> THEN <<>>
    ELSE LET season == FindId(bloomSeasons, Head(seasonNames)) IN
         (IF season # 0
          THEN <<[plantId |-> plantId, bloomSeasonId |-> season]>> ELSE <<>>)
         \o SeasonLinksFor(plantId, Tail(seasonNames))

RECURSIVE FixSeasonsFrom(_, _)
FixSeasonsFrom(existingPlants, links) ==
    IF existingPlants = <<>> THEN links
    ELSE LET plant == Head(existingPlants)
             r == CsvRecordNamed(plant.name)
         IN  FixSeasonsFrom(Tail(existingPlants),
                 IF r = 0 THEN links
                 ELSE links \o SeasonLinksFor(plant.id,
                          parseBloomSeasons(CsvRecords[r].bloom_seasons, <<>>)))

\* fixAllBloomSeasons, one run of the script
FixAllBloomSeasons ==
    /\ responses = <<>>
    /\ plants # <<>>
    /\ LET links == FixSeasonsFrom(plants, plantBloomSeasons) IN
       /\ Len(links) <= MaxJoinRows
       /\ plantBloomSeasons' = links
    /\ UNCHANGED <<plants, plantSeq, zones, bloomSeasons, plantZones,
                   plantLightLevels, uploaded, calls, importers, garden, scroll, responses>>

\* zoneMap.get(label) for the map filled by zoneRows.forEach(...set(row.zone,
\* row.id)): the id of the last row with the label, 0 for undefined
ZoneMapGet(label) ==
    IF \E i \in 1..Len(zones) : zones[i] = label
    THEN CHOOSE i \in 1..Len(zones) :
            zones[i] = label /\ \A j \in (i + 1)..Len(zones) : zones[j] # label
    ELSE 0

\* the ids of `${i}a` and `${i}b`, each when the map has it
ZoneIdsAB(numeral) ==
    LET a == ZoneMapGet(numeral \o <<"a">>)
        b == ZoneMapGet(numeral \o <<"b">>)
    IN  (IF a # 0 THEN <<a>> ELSE <<>>) \o (IF b # 0 THEN <<b>> ELSE <<>>)

RECURSIVE ZoneIdsInRange(_, _)
ZoneIdsInRange(i, endNum) ==
    IF i > endNum THEN <<>>
    ELSE ZoneIdsAB(IntText(i)) \o ZoneIdsInRange(i + 1, endNum)

\* the zone ids that fixZones links for one entry of the grow_zones cell
ZoneIdsFor(zone) ==
    IF Includes(zone, <<"-">>)
    THEN LET parts == Split(zone, "-")
             startNum == ParseInt(parts[1])
             endNum == ParseInt(parts[2])
         IN  IF startNum.k = "num" /\ endNum.k = "num"
             THEN ZoneIdsInRange(startNum.v, endNum.v) ELSE <<>>
    ELSE IF ZoneMapGet(zone) # 0 THEN <<ZoneMapGet(zone)>>
    ELSE IF AllDigits(zone) THEN ZoneIdsAB(zone)
    ELSE <<>>

\* db.insert(plantZones).values(row).onConflictDoNothing(): plant_zones has no
\* unique key but its serial id, so no insert conflicts and every row is added
InsertOnConflictDoNothing(links, row) == Append(links, row)

RECURSIVE LinkZoneIds(_, _, _)
LinkZoneIds(links, plantId, zoneIds) ==
    IF zoneIds = <<>> THEN links
    ELSE LinkZoneIds(InsertOnConflictDoNothing(links,
                         [plantId |-> plantId, zoneId |-> Head(zoneIds)]),
                     plantId, Tail(zoneIds))

RECURSIVE LinkZonesList(_, _, _)
LinkZonesList(links, plantId, zonesList) ==
    IF zonesList = <<>> THEN links
    ELSE LinkZonesList(LinkZoneIds(links, plantId, ZoneIdsFor(Head(zonesList))),
                       plantId, Tail(zonesList))

\* db.select().from(plants).where(eq(plants.name, name)): the first row's id, 0 if none
FindPlantByName(name) ==
    IF \E i \in 1..Len(plants) : plants[i].name = name
    THEN plants[CHOOSE i \in 1..Len(plants) :
                   plants[i].name = name /\ \A j \in 1..(i - 1) : plants[j].name # name].id
    ELSE 0

RECURSIVE FixZonesFrom(_, _)
FixZonesFrom(records, links) ==
    IF records = <<>> THEN links
    ELSE LET record == Head(records)
             plantId == FindPlantByName(Trim(record.name))
         IN  FixZonesFrom(Tail(records),
                 IF record.name = <<>> \/ record.grow_zones = <<>> \/ plantId = 0
                 THEN links
                 ELSE LinkZonesList(links, plantId,
                                    TrimAll(Split(record.grow_zones, ","))))

\* fixZones, one run of the script
FixZones ==
    /\ responses = <<>>
    /\ plants # <<>>
    /\ LET links == FixZonesFrom(CsvRecords, plantZones) IN
       /\ Len(links) <= MaxJoinRows
       /\ plantZones' = links
    /\ UNCHANGED <<plants, plantSeq, zones, bloomSeasons, plantBloomSeasons,
                   plantLightLevels, uploaded, calls, importers, garden, scroll, responses>>

---------------------------------------------------------------------------
(* DatabaseStorage.getPlants: load, filter, sort, paginate *)

\* the labels a plant is joined to through one join table, in row order
Joined(links, plantId, idKey, ref) ==
    LET rows == SelectSeq(links, LAMBDA r : r.plantId = plantId)
    IN  [i \in 1..Len(rows) |-> ref[rows[i][idKey]]]

\* db.query.plants.findMany({ with: ... }): every plant with its relations
plantsWithZones ==
    [i \in 1..Len(plants) |->
        plants[i] @@
        [plantZones |-> Joined(plantZones, plants[i].id, "zoneId", zones),
         plantLightLevels |->
             Joined(plantLightLevels, plants[i].id, "lightLevelId", lightLevels),
         plantBloomSeasons |->
             Joined(plantBloomSeasons, plants[i].id, "bloomSeasonId", bloomSeasons)]]

\* filter.lightLevels.some(v => values.includes(v))
SomeIncluded(list, values) == \E i \in 1..Len(list) : ArrayIncludes(values, list[i])

\* variant: the texts are compared as they are, case included
SearchFilterCaseSensitive(ps, filter) ==
    IF Has(filter, "search") /\ filter.search # <<>>
    THEN SelectSeq(ps, LAMBDA plant :
             \/ Includes(plant.name, filter.search)
             \/ Includes(plant.scientificName, filter.search)
             \/ Includes(plant.description, filter.search))
    ELSE ps

SearchFilter(ps, filter) ==
    IF Has(filter, "search") /\ filter.search # <<>>
    THEN LET searchTerm == ToLowerCase(filter.search) IN
         SelectSeq(ps, LAMBDA plant :
             \/ Includes(ToLowerCase(plant.name), searchTerm)
             \/ Includes(ToLowerCase(plant.scientificName), searchTerm)
             \/ Includes(ToLowerCase(plant.description), searchTerm))
    ELSE ps

\* variant: the filter reads the plant's own light_level column
LightLevelsFilterOwnColumn(ps, filter) ==
    IF Has(filter, "lightLevels") /\ Len(filter.lightLevels) > 0
    THEN SelectSeq(ps, LAMBDA plant : ArrayIncludes(filter.lightLevels, plant.lightLevel))
    ELSE ps

\* variant: every listed level must be one of the plant's levels
LightLevelsFilterEvery(ps, filter) ==
    IF Has(filter, "lightLevels") /\ filter.lightLevels # <<>>
    THEN SelectSeq(ps, LAMBDA plant :
             \A i \in 1..Len(filter.lightLevels) :
                 ArrayIncludes(plant.plantLightLevels, filter.lightLevels[i]))
    ELSE ps

LightLevelsFilter(ps, filter) ==
    IF Has(filter, "lightLevels") /\ Len(filter.lightLevels) > 0
    THEN SelectSeq(ps, LAMBDA plant :
             SomeIncluded(filter.lightLevels, plant.plantLightLevels))
    ELSE ps

WaterNeedsFilter(ps, filter) ==
    IF Has(filter, "waterNeeds") /\ Len(filter.waterNeeds) > 0
    THEN SelectSeq(ps, LAMBDA plant : ArrayIncludes(filter.waterNeeds, plant.waterNeeds))
    ELSE ps

\* variant: every listed zone must be one of the plant's zones
GrowZonesFilterEvery(ps, filter) ==
    IF Has(filter, "growZones") /\ Len(filter.growZones) > 0
    THEN SelectSeq(ps, LAMBDA plant :
             \A i \in 1..Len(filter.growZones) :
                 ArrayIncludes(plant.plantZones, filter.growZones[i]))
    ELSE ps

GrowZonesFilter(ps, filter) ==
    IF Has(filter, "growZones") /\ Len(filter.growZones) > 0
    THEN SelectSeq(ps, LAMBDA plant : SomeIncluded(filter.growZones, plant.plantZones))
    ELSE ps

\* a plant once for each of its seasons that is among the values
RECURSIVE OncePerSeason(_, _)
OncePerSeason(ps, values) ==
    IF ps = <<>> THEN <<>>
    ELSE [i \in 1..Len(SelectSeq(Head(ps).plantBloomSeasons,
                                 LAMBDA s : ArrayIncludes(values, s))) |-> Head(ps)]
         \o OncePerSeason(Tail(ps), values)

\* variant: the filter is a join, with a row for every matching join record
BloomSeasonsFilterPerJoinRow(ps, filter) ==
    IF Has(filter, "bloomSeasons") /\ Len(filter.bloomSeasons) > 0
    THEN OncePerSeason(ps, filter.bloomSeasons)
    ELSE ps

BloomSeasonsFilter(ps, filter) ==
    IF Has(filter, "bloomSeasons") /\ Len(filter.bloomSeasons) > 0
    THEN SelectSeq(ps, LAMBDA plant :
             SomeIncluded(filter.bloomSeasons, plant.plantBloomSeasons))
    ELSE ps

\* variant: the length of the list is not looked at
HeightTextsFilterAnyList(ps, filter) ==
    IF Has(filter, "heightTexts")
    THEN SelectSeq(ps, LAMBDA plant :
             /\ Has(plant, "heightText") /\ plant.heightText # <<>>
             /\ ArrayIncludes(filter.heightTexts, plant.heightText))
    ELSE ps

HeightTextsFilter(ps, filter) ==
    IF Has(filter, "heightTexts") /\ Len(filter.heightTexts) > 0
    THEN SelectSeq(ps, LAMBDA plant :
             /\ Has(plant, "heightText") /\ plant.heightText # <<>>
             /\ ArrayIncludes(filter.heightTexts, plant.heightText))
    ELSE ps

\* the six filters in the order the code applies them
FilterPlants(ps, filter) ==
    HeightTextsFilter(
      BloomSeasonsFilter(
        GrowZonesFilter(
          WaterNeedsFilter(
            LightLevelsFilter(
              SearchFilter(ps, filter), filter), filter), filter), filter), filter)

(* JavaScript arithmetic on numbers that may be NaN or infinite *)
JsSub(x, y) ==
    IF x.k = "nan" \/ y.k = "nan" THEN NaN
    ELSE IF x.k = "inf" THEN (IF y.k = "inf" /\ y.v = x.v THEN NaN ELSE x)
    ELSE IF y.k = "inf" THEN [k |-> "inf", v |-> -y.v]
    ELSE Num(x.v - y.v)

JsLess(x, y) ==
    LET d == JsSub(x, y) IN d.k # "nan" /\ d.v < 0

RECURSIVE MathMin(_)
MathMin(ns) ==
    IF ns = <<>> THEN PosInfinity
    ELSE LET rest == MathMin(Tail(ns)) IN
         IF Head(ns).k = "nan" \/ rest.k = "nan" THEN NaN
         ELSE IF JsLess(Head(ns), rest) THEN Head(ns) ELSE rest

RECURSIVE MathMax(_)
MathMax(ns) ==
    IF ns = <<>> THEN NegInfinity
    ELSE LET rest == MathMax(Tail(ns)) IN
         IF Head(ns).k = "nan" \/ rest.k = "nan" THEN NaN
         ELSE IF JsLess(rest, Head(ns)) THEN Head(ns) ELSE rest

\* what Array.prototype.sort makes of a comparator's result: NaN counts as 0
SortSign(n) ==
    IF n.k = "nan" THEN 0
    ELSE IF n.v < 0 THEN -1 ELSE IF n.v > 0 THEN 1 ELSE 0

\* collation weight of a character: digits before letters, case ignored
PrimaryWeight(c) ==
    IF IndexOf(c, DigitChars) > 0 THEN 100 + IndexOf(c, DigitChars)
    ELSE IF IndexOf(ToLowerChar(c), LowerChars) > 0
         THEN 200 + IndexOf(ToLowerChar(c), LowerChars)
    ELSE 1

IsUpper(c) == IndexOf(c, UpperChars) > 0

\* a.localeCompare(b): by letters first, then lower case before upper case
LocaleCompare(a, b) ==
    LET n == Min(Len(a), Len(b))
        pd == {i \in 1..n : PrimaryWeight(a[i]) # PrimaryWeight(b[i])}
        td == {i \in 1..n : IsUpper(a[i]) # IsUpper(b[i])}
        first(S) == CHOOSE i \in S : \A j \in S : i <= j
    IN  IF pd # {}
        THEN (IF PrimaryWeight(a[first(pd)]) < PrimaryWeight(b[first(pd)]) THEN -1 ELSE 1)
        ELSE IF Len(a) # Len(b) THEN (IF Len(a) < Len(b) THEN -1 ELSE 1)
        ELSE IF td # {} THEN (IF IsUpper(b[first(td)]) THEN -1 ELSE 1)
        ELSE 0

\* variant: the order table written sun first
LightOrderSunFirst(level) ==
    IF level = FullSun THEN 1
    ELSE IF level = MostlySun THEN 2
    ELSE IF level = HalfSunHalfShade THEN 3
    ELSE IF level = MostlyShade THEN 4
    ELSE IF level = FullShade THEN 5
    ELSE 0

\* lightOrder[level] || 0
LightOrder(level) ==
    IF level = FullShade THEN 1
    ELSE IF level = MostlyShade THEN 2
    ELSE IF level = HalfSunHalfShade THEN 3
    ELSE IF level = MostlySun THEN 4
    ELSE IF level = FullSun THEN 5
    ELSE 0

MaxLight(plant) ==
    MathMax([i \in 1..Len(plant.plantLightLevels) |->
                Num(LightOrder(plant.plantLightLevels[i]))])

\* zone.replace(/[ab]/, ''): the first a or b removed
ReplaceAB(zone) ==
    LET hits == {i \in 1..Len(zone) : zone[i] \in {"a", "b"}} IN
    IF hits = {} THEN zone
    ELSE LET i == CHOOSE h \in hits : \A j \in hits : h <= j
         IN  SubSeq(zone, 1, i - 1) \o SubSeq(zone, i + 1, Len(zone))

\* variant: the plant's first zone label taken instead of the smallest one
MinZoneFirstLabel(plant) ==
    IF plant.plantZones = <<>> THEN PosInfinity
    ELSE ParseInt(ReplaceAB(plant.plantZones[1]))

MinZone(plant) ==
    MathMin([i \in 1..Len(plant.plantZones) |-> ParseInt(ReplaceAB(plant.plantZones[i]))])

\* variant: the name comparator with its arguments swapped
CompareNameSwapped(sort, a, b) ==
    IF sort = SortName THEN LocaleCompare(b.name, a.name)
    ELSE IF sort = SortLight THEN SortSign(JsSub(MaxLight(a), MaxLight(b)))
    ELSE SortSign(JsSub(MinZone(a), MinZone(b)))

\* the sign of the comparator of the sort key
Compare(sort, a, b) ==
    IF sort = SortName THEN LocaleCompare(a.name, b.name)
    ELSE IF sort = SortLight THEN SortSign(JsSub(MaxLight(a), MaxLight(b)))
    ELSE SortSign(JsSub(MinZone(a), MinZone(b)))

\* variant: an unstable sort, an element goes before the elements equal to it
RECURSIVE ArraySortUnstable(_, _)
ArraySortUnstable(arr, sort) ==
    IF Len(arr) <= 1 THEN arr
    ELSE LET front == ArraySortUnstable(SubSeq(arr, 1, Len(arr) - 1), sort)
             x == arr[Len(arr)]
             lt == {i \in 1..Len(front) : Compare(sort, front[i], x) < 0}
             k == IF lt = {} THEN 0 ELSE CHOOSE i \in lt : \A j \in lt : j <= i
         IN  SubSeq(front, 1, k) \o <<x>> \o SubSeq(front, k + 1, Len(front))

\* Array.prototype.sort is stable: an element goes right after the last element
\* that does not compare greater than it
RECURSIVE ArraySort(_, _)
ArraySort(arr, sort) ==
    IF Len(arr) <= 1 THEN arr
    ELSE LET front == ArraySort(SubSeq(arr, 1, Len(arr) - 1), sort)
             x == arr[Len(arr)]
             le == {i \in 1..Len(front) : Compare(sort, front[i], x) <= 0}
             k == IF le = {} THEN 0 ELSE CHOOSE i \in le : \A j \in le : j <= i
         IN  SubSeq(front, 1, k) \o <<x>> \o SubSeq(front, k + 1, Len(front))

SortPlants(ps, filter) ==
    IF Has(filter, "sort") THEN ArraySort(ps, filter.sort) ELSE ps

\* filter?.page || 1 and filter?.limit || 15
DefaultLimit == 15
PageOf(filter) == IF Has(filter, "page") /\ filter.page # 0 THEN filter.page ELSE 1
LimitOf(filter) ==
    IF Has(filter, "limit") /\ filter.limit # 0 THEN filter.limit ELSE DefaultLimit

\* variant: slice(offset, limit)
PaginateSliceToLimit(ps, page, limit) ==
    LET offset == (page - 1) * limit
    IN  SubSeq(ps, Min(offset, Len(ps)) + 1, Min(limit, Len(ps)))

\* variant: the page number taken as 0-based
PaginateZeroBased(ps, page, limit) ==
    LET offset == page * limit
    IN  SubSeq(ps, Min(offset, Len(ps)) + 1, Min(offset + limit, Len(ps)))

\* filteredPlants.slice(offset, offset + limit)
Paginate(ps, page, limit) ==
    LET offset == (page - 1) * limit
        start == Min(offset, Len(ps))
        end == Min(offset + limit, Len(ps))
    IN  SubSeq(ps, start + 1, end)

\* variant: Math.floor
TotalPagesFloor(totalCount, limit) == totalCount \div limit

\* Math.ceil(totalCount / limit)
TotalPages(totalCount, limit) ==
    IF totalCount % limit = 0 THEN totalCount \div limit
    ELSE (totalCount \div limit) + 1

\* variant: page <= totalPages
HasNextPageInclusive(page, totalPages) == page <= totalPages
HasNextPage(page, totalPages) == page < totalPages
HasPreviousPage(page) == page > 1

\* the sequence getPlants slices: every plant, filtered, then sorted
filteredPlants(filter) == SortPlants(FilterPlants(plantsWithZones, filter), filter)

\* variant: totalCount taken after slicing
getPlantsCountsThePage(filter) ==
    LET all == filteredPlants(filter)
        page == PageOf(filter)
        limit == LimitOf(filter)
        paginated == Paginate(all, page, limit)
        totalPages == TotalPages(Len(paginated), limit)
    IN  [plants |-> paginated,
         totalCount |-> Len(paginated),
         currentPage |-> page,
         totalPages |-> totalPages,
         hasNextPage |-> HasNextPage(page, totalPages),
         hasPreviousPage |-> HasPreviousPage(page)]

getPlants(filter) ==
    LET all == filteredPlants(filter)
        totalCount == Len(all)
        page == PageOf(filter)
        limit == LimitOf(filter)
        totalPages == TotalPages(totalCount, limit)
    IN  [plants |-> Paginate(all, page, limit),
         totalCount |-> totalCount,
         currentPage |-> page,
         totalPages |-> totalPages,
         hasNextPage |-> HasNextPage(page, totalPages),
         hasPreviousPage |-> HasPreviousPage(page)]

---------------------------------------------------------------------------
(* MemStorage.getPlants: the same listing over the plants of a Map, each    *)
(* with its zones                                                           *)

\* filter.lightLevels.some(level => plant.lightLevel.toLowerCase().includes(...))
MemLightLevelsFilter(ps, filter) ==
    IF Has(filter, "lightLevels") /\ Len(filter.lightLevels) > 0
    THEN SelectSeq(ps, LAMBDA plant :
             \E i \in 1..Len(filter.lightLevels) :
                 Includes(ToLowerCase(plant.lightLevel),
                          ToLowerCase(filter.lightLevels[i])))
    ELSE ps

\* filter.waterNeeds.some(need => plant.waterNeeds.toLowerCase().includes(...))
MemWaterNeedsFilter(ps, filter) ==
    IF Has(filter, "waterNeeds") /\ Len(filter.waterNeeds) > 0
    THEN SelectSeq(ps, LAMBDA plant :
             \E i \in 1..Len(filter.waterNeeds) :
                 Includes(ToLowerCase(plant.waterNeeds),
                          ToLowerCase(filter.waterNeeds[i])))
    ELSE ps

\* plant.plantZones.some(pz => filter.growZones.includes(pz.zone.zone))
MemGrowZonesFilter(ps, filter) ==
    IF Has(filter, "growZones") /\ Len(filter.growZones) > 0
    THEN SelectSeq(ps, LAMBDA plant :
             \E i \in 1..Len(plant.plantZones) :
                 ArrayIncludes(filter.growZones, plant.plantZones[i]))
    ELSE ps

\* the four filters of MemStorage in the order the code applies them
MemFilterPlants(ps, filter) ==
    MemGrowZonesFilter(
      MemWaterNeedsFilter(
        MemLightLevelsFilter(
          SearchFilter(ps, filter), filter), filter), filter)

\* lightOrder = { low: 1, medium: 2, bright: 3 } on the word the level contains
MemLightOrder(plant) ==
    IF Includes(ToLowerCase(plant.lightLevel), Low) THEN 1
    ELSE IF Includes(ToLowerCase(plant.lightLevel), Medium) THEN 2
    ELSE 3

MemCompare(sort, a, b) ==
    IF sort = SortName THEN LocaleCompare(a.name, b.name)
    ELSE IF sort = SortLight THEN SortSign(Num(MemLightOrder(a) - MemLightOrder(b)))
    ELSE SortSign(JsSub(MinZone(a), MinZone(b)))

RECURSIVE MemArraySort(_, _)
MemArraySort(arr, sort) ==
    IF Len(arr) <= 1 THEN arr
    ELSE LET front == MemArraySort(SubSeq(arr, 1, Len(arr) - 1), sort)
             x == arr[Len(arr)]
             le == {i \in 1..Len(front) : MemCompare(sort, front[i], x) <= 0}
             k == IF le = {} THEN 0 ELSE CHOOSE i \in le : \A j \in le : j <= i
         IN  SubSeq(front, 1, k) \o <<x>> \o SubSeq(front, k + 1, Len(front))

MemSortPlants(ps, filter) ==
    IF Has(filter, "sort") THEN MemArraySort(ps, filter.sort) ELSE ps

\* MemStorage.getPlants on the plants the Map holds
memGetPlantsOn(mapValues, filter) ==
    LET all == MemSortPlants(MemFilterPlants(mapValues, filter), filter)
        totalCount == Len(all)
        page == PageOf(filter)
        limit == LimitOf(filter)
        totalPages == TotalPages(totalCount, limit)
    IN  [plants |-> Paginate(all, page, limit),
         totalCount |-> totalCount,
         currentPage |-> page,
         totalPages |-> totalPages,
         hasNextPage |-> HasNextPage(page, totalPages),
         hasPreviousPage |-> HasPreviousPage(page)]

\* a MemStorage that holds the plants of the database, each with its zones,
\* answers getPlants(filter)
MemStorageGetPlants(filter) ==
    /\ responses = <<>>
    /\ responses' = <<[kind |-> "mem", filter |-> filter, status |-> 200,
                       body |-> memGetPlantsOn(plantsWithZones, filter)]>>
    /\ UNCHANGED <<dbVars, calls, importers, garden, scroll>>

---------------------------------------------------------------------------
(* GET /api/plants *)

Opt(key, cond, val) == IF cond THEN (key :> val) ELSE <<>>

\* `req.query.x ? ... : undefined`: the parameter is there and not the empty string
Truthy(query, key) == Has(query, key) /\ query[key] # <<>>

\* the object the route hands to plantFilterSchema.parse
RouteInput(query) ==
    Opt("search", Has(query, "search"), query.search)
    @@ Opt("lightLevels", Truthy(query, "lightLevels"), Split(query.lightLevels, ","))
    @@ Opt("waterNeeds", Truthy(query, "waterNeeds"), Split(query.waterNeeds, ","))
    @@ Opt("growZones", Truthy(query, "growZones"), Split(query.growZones, ","))
    @@ Opt("bloomSeasons", Truthy(query, "bloomSeasons"), Split(query.bloomSeasons, ","))
    @@ Opt("heights", Truthy(query, "heights"), Split(query.heights, ","))
    @@ Opt("sort", Has(query, "sort"), query.sort)
    @@ Opt("page", Truthy(query, "page"), ParseInt(query.page))
    @@ Opt("limit", Truthy(query, "limit"), ParseInt(query.limit))

MinPage == 1
MinLimit == 1
MaxLimitAllowed == 100
SchemaKeys == {"search", "lightLevels", "waterNeeds", "growZones", "bloomSeasons",
               "heightTexts", "sort"}

\* plantFilterSchema: the fields that fail validation
plantFilterSchemaErrors(input) ==
    {k \in {"sort"} : Has(input, k) /\ input.sort \notin {SortName, SortLight, SortZone}}
    \cup {k \in {"page"} : Has(input, k) /\ (input.page.k # "num" \/ input.page.v < MinPage)}
    \cup {k \in {"limit"} : Has(input, k) /\
            (input.limit.k # "num" \/ input.limit.v < MinLimit
                \/ input.limit.v > MaxLimitAllowed)}

\* plantFilterSchema.parse on a valid input: the keys of the schema are kept, any
\* other key is dropped, page and limit get their defaults
plantFilterSchemaParse(input) ==
    [k \in (DOMAIN input) \cap SchemaKeys |-> input[k]]
    @@ [page |-> IF Has(input, "page") THEN input.page.v ELSE MinPage,
        limit |-> IF Has(input, "limit") THEN input.limit.v ELSE DefaultLimit]

\* app.get("/api/plants"): 200 with the page, 400 on a validation error
ApiGetPlants(query) ==
    /\ responses = <<>>
    /\ LET input == RouteInput(query) IN
       IF plantFilterSchemaErrors(input) # {}
       THEN responses' = <<[kind |-> "api", query |-> query, status |-> 400,
                            errors |-> plantFilterSchemaErrors(input)]>>
       ELSE LET filter == plantFilterSchemaParse(input) IN
            responses' = <<[kind |-> "api", query |-> query, filter |-> filter,
                            status |-> 200, body |-> getPlants(filter)]>>
    /\ UNCHANGED <<dbVars, calls, importers, garden, scroll>>

\* storage.getPlants(filter) called with a validated PlantFilter
StorageGetPlants(filter) ==
    /\ responses = <<>>
    /\ responses' = <<[kind |-> "storage", filter |-> filter, status |-> 200,
                       body |-> getPlants(filter)]>>
    /\ UNCHANGED <<dbVars, calls, importers, garden, scroll>>

\* the caller takes the result
ReceiveResponse ==
    /\ responses # <<>>
    /\ responses' = <<>>
    /\ UNCHANGED <<dbVars, calls, importers, garden, scroll>>

---------------------------------------------------------------------------
(* One plant by id: GET, PUT, DELETE /api/plants/:id and POST .../image *)

\* where(eq(plants.id, id)): the place of the row with this id, 0 if there is none
FindPlant(id) ==
    IF \E i \in 1..Len(plants) : plants[i].id = id
    THEN CHOOSE i \in 1..Len(plants) : plants[i].id = id
    ELSE 0

\* DatabaseStorage.getPlant: the plant with its relations, <<>> for undefined
getPlant(id) ==
    IF FindPlant(id) = 0 THEN <<>> ELSE <<plantsWithZones[FindPlant(id)]>>

\* one row after .set(values): values[k] is <<v>> for a value, <<>> for null
SetColumns(row, values) ==
    LET nulls == {k \in DOMAIN values : values[k] = <<>>}
        keys == ((DOMAIN row) \cup (DOMAIN values)) \ nulls
    IN  [k \in keys |-> IF k \in DOMAIN values THEN values[k][1] ELSE row[k]]

\* .returning(): the rows of the table that the statement touched
Returning(table, id) == SelectSeq(table, LAMBDA row : row.id = id)

\* variant: a row is inserted when no row has the id
updatePlantOrInsert(id, values) ==
    IF \E i \in 1..Len(plants) : plants[i].id = id
    THEN [i \in 1..Len(plants) |->
            IF plants[i].id = id THEN SetColumns(plants[i], values) ELSE plants[i]]
    ELSE Append(plants, SetColumns([id |-> id], values))

\* DatabaseStorage.updatePlant: table plants after the update
updatePlant(id, values) ==
    [i \in 1..Len(plants) |->
        IF plants[i].id = id THEN SetColumns(plants[i], values) ELSE plants[i]]

\* DatabaseStorage.deletePlant: table plants after the delete
deletePlant(id) == SelectSeq(plants, LAMBDA row : row.id # id)

\* variant: the foreign key does not cascade, the join rows stay
CascadeDeleteNone(links, plantId) == links

\* references(() => plants.id, { onDelete: "cascade" }): the join rows that stay
CascadeDelete(links, plantId) == SelectSeq(links, LAMBDA row : row.plantId # plantId)

\* the columns insertPlantSchema knows: every column of plants but id
PlantColumns == {"name", "scientificName", "description", "imageUrl", "imageData",
                 "imageMimeType", "lightLevel", "waterNeeds", "bloomTime", "height",
                 "heightText", "width", "temperature", "humidity", "careInstructions",
                 "commonIssues"}

\* the columns of plants declared notNull(): insertPlantSchema requires them
RequiredColumns == {"name", "scientificName", "description", "lightLevel",
                    "waterNeeds", "bloomTime", "height", "width"}

\* insertPlantSchema.partial(): the fields of the body that fail validation
partialPlantSchemaErrors(body) ==
    {k \in (DOMAIN body) \cap PlantColumns :
        /\ body[k].type # "string"
        /\ ~(body[k].type = "null" /\ k \notin RequiredColumns)}

\* variant: the keys the schema does not know are kept
partialPlantSchemaPassthrough(body) ==
    [k \in DOMAIN body |-> IF body[k].type = "null" THEN <<>> ELSE <<body[k].value>>]

\* insertPlantSchema.partial().parse on a valid body: unknown keys are dropped
partialPlantSchemaParse(body) ==
    [k \in (DOMAIN body) \cap PlantColumns |->
        IF body[k].type = "null" THEN <<>> ELSE <<body[k].value>>]

B64Chars == UpperChars \o LowerChars \o DigitChars \o <<"+", "/">>

\* buffer.toString('base64')
RECURSIVE ToBase64(_)
ToBase64(bytes) ==
    IF bytes = <<>> THEN <<>>
    ELSE LET n == Min(3, Len(bytes))
             v == bytes[1] * 65536
                  + (IF n >= 2 THEN bytes[2] * 256 ELSE 0)
                  + (IF n = 3 THEN bytes[3] ELSE 0)
         IN  <<B64Chars[(v \div 262144) + 1], B64Chars[((v \div 4096) % 64) + 1]>>
             \o (IF n >= 2 THEN <<B64Chars[((v \div 64) % 64) + 1]>> ELSE <<"=">>)
             \o (IF n = 3 THEN <<B64Chars[(v % 64) + 1]>> ELSE <<"=">>)
             \o ToBase64(SubSeq(bytes, n + 1, Len(bytes)))

\* app.get("/api/plants/:id")
ApiGetPlant(idText) ==
    /\ responses = <<>>
    /\ LET id == ParseInt(idText).v
           plant == getPlant(id)
       IN  responses' =
               IF plant = <<>>
               THEN <<[kind |-> "get", id |-> idText, status |-> 404]>>
               ELSE <<[kind |-> "get", id |-> idText, status |-> 200,
                       body |-> plant[1]]>>
    /\ UNCHANGED <<dbVars, calls, importers, garden, scroll>>

\* insertPlantSchema: the fields of the body that fail validation (a required
\* column wants a string, any other column a string, null or nothing)
insertPlantSchemaErrors(body) ==
    {k \in RequiredColumns : ~Has(body, k) \/ body[k].type # "string"}
    \cup {k \in (DOMAIN body) \cap (PlantColumns \ RequiredColumns) :
            body[k].type \notin {"string", "null"}}

\* insertPlantSchema.parse on a valid body: unknown keys (id too) are dropped
insertPlantSchemaParse(body) ==
    [k \in (DOMAIN body) \cap PlantColumns |->
        IF body[k].type = "null" THEN <<>> ELSE <<body[k].value>>]

\* variant: only the required columns are written
InsertedRowRequiredOnly(id, values) ==
    SetColumns([id |-> id], [k \in (DOMAIN values) \cap RequiredColumns |-> values[k]])

\* db.insert(plants).values(insertPlant).returning(): the row with its serial id,
\* a column without a value is NULL
InsertedRow(id, values) == SetColumns([id |-> id], values)

\* app.post("/api/plants")
ApiPostPlant(body) ==
    /\ responses = <<>>
    /\ plantSeq < MaxPlants
    /\ IF insertPlantSchemaErrors(body) # {}
       THEN /\ responses' = <<[kind |-> "post", request |-> body, status |-> 400,
                               errors |-> insertPlantSchemaErrors(body)]>>
            /\ UNCHANGED <<plants, plantSeq>>
       ELSE LET newPlant == InsertedRow(plantSeq + 1, insertPlantSchemaParse(body))
            IN  /\ plants' = Append(plants, newPlant)
                /\ plantSeq' = plantSeq + 1
                /\ responses' = <<[kind |-> "post", request |-> body, status |-> 201,
                                   body |-> newPlant]>>
    /\ UNCHANGED <<zones, bloomSeasons, plantZones, plantBloomSeasons,
                   plantLightLevels, uploaded, calls, importers, garden, scroll>>

\* app.put("/api/plants/:id")
ApiPutPlant(idText, body) ==
    /\ responses = <<>>
    /\ LET id == ParseInt(idText).v IN
       IF partialPlantSchemaErrors(body) # {}
       THEN /\ responses' = <<[kind |-> "put", id |-> idText, request |-> body,
                               status |-> 400,
                               errors |-> partialPlantSchemaErrors(body)]>>
            /\ plants' = plants
       ELSE LET after == updatePlant(id, partialPlantSchemaParse(body))
                updatedPlant == Returning(after, id)
            IN  /\ plants' = after
                /\ responses' =
                      IF updatedPlant = <<>>
                      THEN <<[kind |-> "put", id |-> idText, request |-> body,
                              status |-> 404]>>
                      ELSE <<[kind |-> "put", id |-> idText, request |-> body,
                              status |-> 200, body |-> updatedPlant[1]]>>
    /\ UNCHANGED <<plantSeq, zones, bloomSeasons, plantZones, plantBloomSeasons,
                   plantLightLevels, uploaded, calls, importers, garden, scroll>>

\* app.delete("/api/plants/:id")
ApiDeletePlant(idText) ==
    /\ responses = <<>>
    /\ LET id == ParseInt(idText).v IN
       /\ plants' = deletePlant(id)
       /\ plantZones' = CascadeDelete(plantZones, id)
       /\ plantBloomSeasons' = CascadeDelete(plantBloomSeasons, id)
       /\ plantLightLevels' = CascadeDelete(plantLightLevels, id)
       /\ responses' =
             IF Returning(plants, id) = <<>>
             THEN <<[kind |-> "delete", id |-> idText, status |-> 404]>>
             ELSE <<[kind |-> "delete", id |-> idText, status |-> 204]>>
    /\ UNCHANGED <<plantSeq, zones, bloomSeasons, uploaded, calls, importers, garden, scroll>>

\* String.prototype.startsWith
StartsWith(t, prefix) == Len(t) >= Len(prefix) /\ SubSeq(t, 1, Len(prefix)) = prefix

ImagePrefix == <<"i","m","a","g","e","/">>

\* variant: the filter lets every file through
fileFilterAcceptsAll(file) == TRUE

\* multer's fileFilter: cb(null, true) for an image, cb(new Error(...)) otherwise
fileFilter(file) == StartsWith(file.mimetype, ImagePrefix)

\* the status with which the application answers an error that the upload
\* middleware passes on (the handler is installed outside the routes)
UploadErrorStatus == 400

\* app.post("/api/plants/:id/image"): file is <<>> when no file came with it;
\* upload.single('image') runs first and, for a file its filter turns down,
\* passes the error on, so that the route's handler is not called
ApiUploadImage(idText, file) ==
    /\ responses = <<>>
    /\ LET id == ParseInt(idText).v IN
       IF file # <<>> /\ ~fileFilter(file[1])
       THEN /\ responses' = <<[kind |-> "image", id |-> idText, request |-> file,
                               status |-> UploadErrorStatus]>>
            /\ plants' = plants
       ELSE IF file = <<>>
       THEN /\ responses' = <<[kind |-> "image", id |-> idText, request |-> file,
                               status |-> 400]>>
            /\ plants' = plants
       ELSE LET after == updatePlant(id,
                            [imageData |-> <<ToBase64(file[1].buffer)>>,
                             imageMimeType |-> <<file[1].mimetype>>,
                             imageUrl |-> <<>>])
                updatedPlant == Returning(after, id)
            IN  /\ plants' = after
                /\ responses' =
                      IF updatedPlant = <<>>
                      THEN <<[kind |-> "image", id |-> idText, request |-> file,
                              status |-> 404]>>
                      ELSE <<[kind |-> "image", id |-> idText, request |-> file,
                              status |-> 200, body |-> updatedPlant[1]]>>
    /\ UNCHANGED <<plantSeq, zones, bloomSeasons, plantZones, plantBloomSeasons,
                   plantLightLevels, uploaded, calls, importers, garden, scroll>>

---------------------------------------------------------------------------
(* useInfiniteScroll: the client that loads the listing page by page.  The  *)
(* hook's state is what useInfiniteQuery and useState hold between renders; *)
(* a handler runs on the state of the latest render                         *)

\* { ...filter, page: pageParam, limit: 15 }
ClientLimit == 15

\* Array.prototype.join
RECURSIVE Join(_, _)
Join(list, sep) ==
    IF list = <<>> THEN <<>>
    ELSE IF Len(list) = 1 THEN list[1]
    ELSE list[1] \o sep \o Join(Tail(list), sep)

\* URLSearchParams.toString(): letters and digits stay, a space becomes '+',
\* any other character its percent code
PercentCode(c) ==
    IF c = " " THEN <<"+">>
    ELSE IF c = "," THEN <<"%","2","C">>
    ELSE IF c = "/" THEN <<"%","2","F">>
    ELSE IF c = "+" THEN <<"%","2","B">>
    ELSE IF c = "%" THEN <<"%","2","5">>
    ELSE <<c>>

RECURSIVE UrlEncode(_)
UrlEncode(t) == IF t = <<>> THEN <<>> ELSE PercentCode(Head(t)) \o UrlEncode(Tail(t))

\* the query parser behind req.query: '+' is a space, %XX the character
RECURSIVE UrlDecode(_)
UrlDecode(t) ==
    IF t = <<>> THEN <<>>
    ELSE IF Head(t) = "+" THEN <<" ">> \o UrlDecode(Tail(t))
    ELSE IF Head(t) = "%" /\ Len(t) >= 3
         THEN LET code == SubSeq(t, 2, 3)
                  c == IF code = <<"2","C">> THEN ","
                       ELSE IF code = <<"2","F">> THEN "/"
                       ELSE IF code = <<"2","B">> THEN "+"
                       ELSE IF code = <<"2","5">> THEN "%"
                       ELSE "?"
              IN  <<c>> \o UrlDecode(SubSeq(t, 4, Len(t)))
    ELSE <<Head(t)>> \o UrlDecode(Tail(t))

\* req.query for a query string, a parameter that is not there being undefined
ReqQuery(queryString) == [k \in DOMAIN queryString |-> UrlDecode(queryString[k])]

\* buildQueryString: a parameter for every property of the filter that is truthy
\* (a list: that is not empty), as params.toString() writes them
buildQueryString(filter) ==
    Opt("search", filter.search # <<>>, UrlEncode(filter.search))
    @@ Opt("lightLevels", Len(filter.lightLevels) > 0,
           UrlEncode(Join(filter.lightLevels, Comma)))
    @@ Opt("waterNeeds", Len(filter.waterNeeds) > 0,
           UrlEncode(Join(filter.waterNeeds, Comma)))
    @@ Opt("growZones", Len(filter.growZones) > 0,
           UrlEncode(Join(filter.growZones, Comma)))
    @@ Opt("bloomSeasons", Len(filter.bloomSeasons) > 0,
           UrlEncode(Join(filter.bloomSeasons, Comma)))
    @@ Opt("heights", Len(filter.heights) > 0, UrlEncode(Join(filter.heights, Comma)))
    @@ Opt("sort", filter.sort # <<>>, UrlEncode(filter.sort))
    @@ Opt("page", filter.page # 0, UrlEncode(IntText(filter.page)))
    @@ Opt("limit", filter.limit # 0, UrlEncode(IntText(filter.limit)))

\* queryFn: the query string of the request for page pageParam
queryFn(filter, pageParam) ==
    buildQueryString([filter EXCEPT !.page = pageParam, !.limit = ClientLimit])

\* variant: the page after the last one is the last one again
getNextPageParamSamePage(lastPage) ==
    IF lastPage.hasNextPage THEN <<lastPage.currentPage>> ELSE <<>>

\* getNextPageParam: undefined is the empty sequence
getNextPageParam(lastPage) ==
    IF lastPage.hasNextPage THEN <<lastPage.currentPage + 1>> ELSE <<>>

\* the hook before its component is mounted
ScrollUnmounted ==
    [mounted |-> FALSE, filter |-> <<>>, pages |-> <<>>, fetching |-> <<>>,
     queryIsFetchingNextPage |-> FALSE, isFetchingNextPage |-> FALSE,
     isError |-> FALSE, sent |-> <<>>]

\* hasNextPage of useInfiniteQuery: there is data and a next page parameter
hasNextPage ==
    /\ scroll.pages # <<>>
    /\ getNextPageParam(scroll.pages[Len(scroll.pages)]) # <<>>

\* data?.pages.flatMap(page => page.plants) || []
RECURSIVE FlatMapPlants(_)
FlatMapPlants(pages) ==
    IF pages = <<>> THEN <<>> ELSE Head(pages).plants \o FlatMapPlants(Tail(pages))

allPlants == FlatMapPlants(scroll.pages)

\* the component mounts: useInfiniteQuery fetches initialPageParam
MountScroll(filter) ==
    /\ ~scroll.mounted
    /\ scroll' = [ScrollUnmounted EXCEPT !.mounted = TRUE, !.filter = filter,
                                         !.fetching = <<1>>,
                                         !.sent = <<queryFn(filter, 1)>>]
    /\ UNCHANGED <<dbVars, calls, importers, garden, responses>>

\* the server takes the request that is in flight
ServeScroll ==
    /\ scroll.mounted /\ scroll.fetching # <<>>
    /\ ApiGetPlants(ReqQuery(scroll.sent[Len(scroll.sent)]))

\* the response arrives: the page joins data.pages, or the query is in error
QuerySettled ==
    /\ scroll.mounted /\ scroll.fetching # <<>>
    /\ responses # <<>>
    /\ scroll' = IF responses[1].status = 200
                 THEN [scroll EXCEPT !.pages = Append(scroll.pages, responses[1].body),
                                     !.fetching = <<>>,
                                     !.queryIsFetchingNextPage = FALSE]
                 ELSE [scroll EXCEPT !.isError = TRUE, !.fetching = <<>>,
                                     !.queryIsFetchingNextPage = FALSE]
    /\ responses' = <<>>
    /\ UNCHANGED <<dbVars, calls, importers, garden>>

\* fetchNextPage().finally(() => setIsFetchingNextPage(false))
FetchNextPageFinally ==
    /\ scroll.mounted /\ scroll.fetching = <<>>
    /\ scroll.isFetchingNextPage
    /\ scroll' = [scroll EXCEPT !.isFetchingNextPage = FALSE]
    /\ UNCHANGED <<dbVars, calls, importers, garden, responses>>

\* the body handleScroll and loadMore share
FetchNextPage ==
    /\ hasNextPage /\ ~scroll.queryIsFetchingNextPage /\ ~scroll.isFetchingNextPage
    /\ LET pageParam == getNextPageParam(scroll.pages[Len(scroll.pages)])[1] IN
       scroll' = [scroll EXCEPT !.isFetchingNextPage = TRUE,
                                !.queryIsFetchingNextPage = TRUE,
                                !.fetching = <<pageParam>>,
                                !.sent = Append(scroll.sent,
                                                queryFn(scroll.filter, pageParam))]
    /\ UNCHANGED <<dbVars, calls, importers, garden, responses>>

\* a scroll event; nearBottom: the window is within 1000px of the end of the page
handleScroll(nearBottom) ==
    /\ scroll.mounted
    /\ nearBottom
    /\ FetchNextPage

\* the Load More button
loadMore ==
    /\ scroll.mounted
    /\ FetchNextPage

---------------------------------------------------------------------------
(* GardenDesignerPanel: the plants placed on the canvas.  Lengths are in    *)
(* pixels; Math.random() is drawn in halves, and the sizes the model uses   *)
(* are even, so that every product is a whole number                        *)

MaxGardenPlants == 2

\* useState({ width: 800, height: 600 })
DefaultCanvasWidth == 800
DefaultCanvasHeight == 600
\* "Subtract height for the palette area"
PaletteHeight == 100
\* Math.max(80, Math.min(120, plant.name.length * 5))
MinPlantSize == 80
MaxPlantSize == 120
SizePerLetter == 5
\* (plant.rotation + 45) % 360
RotateStep == 45
FullTurn == 360

\* the state of the component when it mounts: closed, nothing placed
GardenAtMount ==
    [isOpen |-> FALSE, gardenPlants |-> <<>>, activePlant |-> <<>>,
     isDragging |-> FALSE, dragOffset |-> [x |-> 0, y |-> 0],
     canvasSize |-> [width |-> DefaultCanvasWidth, height |-> DefaultCanvasHeight],
     rect |-> <<>>]

\* Math.random() * n for a draw of r halves
Halves == {0, 1}
RandomTimes(r, n) == (r * n) \div 2

\* the effect on [isOpen, gardenPlants.length]: an open panel with nothing placed
\* takes the size of its container
MeasureCanvas(before, after) ==
    IF /\ <<before.isOpen, Len(before.gardenPlants)>> #
              <<after.isOpen, Len(after.gardenPlants)>>
       /\ after.isOpen /\ Len(after.gardenPlants) = 0 /\ after.rect # <<>>
    THEN [after EXCEPT !.canvasSize = [width |-> after.rect[1].width,
                                       height |-> after.rect[1].height - PaletteHeight]]
    ELSE after

\* Home sets isModalOpen; the container is laid out as the window allows
OpenPanel(rect) ==
    /\ ~garden.isOpen
    /\ garden' = MeasureCanvas(garden, [garden EXCEPT !.isOpen = TRUE, !.rect = <<rect>>])
    /\ UNCHANGED <<dbVars, calls, importers, scroll, responses>>

\* onClose: the component stays mounted and renders nothing
ClosePanel ==
    /\ garden.isOpen
    /\ garden' = [garden EXCEPT !.isOpen = FALSE, !.rect = <<>>]
    /\ UNCHANGED <<dbVars, calls, importers, scroll, responses>>

PlantSize(plant) == Max(MinPlantSize, Min(MaxPlantSize, Len(plant.name) * SizePerLetter))

\* "Generate a random position within the canvas"
PlacedAt(canvasSize, size, rx, ry) ==
    [x |-> RandomTimes(rx, canvasSize.width - size),
     y |-> RandomTimes(ry, canvasSize.height - size)]

addPlantToGarden(plant, rx, ry, rr, now) ==
    /\ garden.isOpen
    /\ Len(garden.gardenPlants) < MaxGardenPlants
    /\ \A i \in 1..Len(garden.gardenPlants) : garden.gardenPlants[i].id <= now
    /\ LET width == PlantSize(plant)
           at == PlacedAt(garden.canvasSize, width, rx, ry)
           placed == [id |-> now, x |-> at.x, y |-> at.y, plant |-> plant,
                      width |-> width, height |-> width,
                      rotation |-> RandomTimes(rr, FullTurn)]
       IN  garden' = MeasureCanvas(garden,
               [garden EXCEPT !.gardenPlants = Append(garden.gardenPlants, placed)])
    /\ UNCHANGED <<dbVars, calls, importers, scroll, responses>>

\* mouse down on a placed plant, `grab` away from the plant's corner
startDrag(plantId, grab) ==
    /\ garden.isOpen
    /\ \E i \in 1..Len(garden.gardenPlants) : garden.gardenPlants[i].id = plantId
    /\ garden' = [garden EXCEPT !.activePlant = <<plantId>>, !.isDragging = TRUE,
                                !.dragOffset = grab]
    /\ UNCHANGED <<dbVars, calls, importers, scroll, responses>>

\* Math.max(0, Math.min(x, canvasSize.width - plant.width))
ClampToCanvas(v, canvasLength, plantLength) == Max(0, Min(v, canvasLength - plantLength))

\* mouse move over the container with the pointer at e
handleDrag(e) ==
    /\ garden.isOpen
    /\ garden.isDragging /\ garden.activePlant # <<>>
    /\ garden.rect # <<>>
    /\ LET gardenRect == garden.rect[1]
           x == e.clientX - gardenRect.left - garden.dragOffset.x
           y == e.clientY - gardenRect.top - garden.dragOffset.y
       IN  garden' = [garden EXCEPT !.gardenPlants =
               [i \in 1..Len(garden.gardenPlants) |->
                   LET plant == garden.gardenPlants[i] IN
                   IF plant.id = garden.activePlant[1]
                   THEN [plant EXCEPT
                            !.x = ClampToCanvas(x, garden.canvasSize.width, plant.width),
                            !.y = ClampToCanvas(y, garden.canvasSize.height, plant.height)]
                   ELSE plant]]
    /\ UNCHANGED <<dbVars, calls, importers, scroll, responses>>

\* mouse up, or the pointer leaves the container (a step only when it changes
\* the state)
endDrag ==
    /\ garden.isOpen
    /\ garden.isDragging \/ garden.activePlant # <<>>
    /\ garden' = [garden EXCEPT !.isDragging = FALSE, !.activePlant = <<>>]
    /\ UNCHANGED <<dbVars, calls, importers, scroll, responses>>

rotatePlant(plantId) ==
    /\ garden.isOpen
    /\ \E i \in 1..Len(garden.gardenPlants) : garden.gardenPlants[i].id = plantId
    /\ garden' = [garden EXCEPT !.gardenPlants =
           [i \in 1..Len(garden.gardenPlants) |->
               LET plant == garden.gardenPlants[i] IN
               IF plant.id = plantId
               THEN [plant EXCEPT !.rotation = (plant.rotation + RotateStep) % FullTurn]
               ELSE plant]]
    /\ UNCHANGED <<dbVars, calls, importers, scroll, responses>>

removePlantFromGarden(plantId) ==
    /\ garden.isOpen
    /\ \E i \in 1..Len(garden.gardenPlants) : garden.gardenPlants[i].id = plantId
    /\ garden' = MeasureCanvas(garden,
           [garden EXCEPT !.gardenPlants =
               SelectSeq(garden.gardenPlants, LAMBDA plant : plant.id # plantId)])
    /\ UNCHANGED <<dbVars, calls, importers, scroll, responses>>

clearGarden ==
    /\ garden.isOpen
    /\ garden.gardenPlants # <<>>
    /\ garden' = MeasureCanvas(garden, [garden EXCEPT !.gardenPlants = <<>>])
    /\ UNCHANGED <<dbVars, calls, importers, scroll, responses>>

---------------------------------------------------------------------------
(* The requests the model issues *)

CategoryKeys == {"search", "lightLevels", "waterNeeds", "growZones", "bloomSeasons",
                 "heightTexts"}

CategoryOptions(key) ==
    CASE key = "search" -> {<<>>, <<"a">>, <<"R","O">>}
      [] key = "lightLevels" -> {<<>>, <<Low>>, <<FullSun>>, <<MostlySun, MostlyShade>>}
      [] key = "waterNeeds" -> {<<>>, <<Low>>, <<Medium, High>>}
      [] key = "growZones" -> {<<>>, <<<<"6">>>>, <<<<"5","a">>, <<"6","b">>>>}
      [] key = "bloomSeasons" -> {<<>>, <<Spring>>, <<Spring, Summer>>}
      [] key = "heightTexts" -> {<<>>, <<Tall>>, <<Short, Tall>>}

OneCategory == UNION {{(k :> v) : v \in CategoryOptions(k)} : k \in CategoryKeys}
TwoCategories == {f @@ g : f \in OneCategory, g \in OneCategory}

DefaultPaging == [page |-> 1, limit |-> DefaultLimit]

\* filter specs with up to two categories given, first page, default page size
CategoryFilters == {DefaultPaging} \cup {f @@ DefaultPaging : f \in TwoCategories}

\* filter specs that walk the pages
PagingFilters ==
    {pl @@ s @@ w :
        pl \in [page : 1..MaxPage, limit : 1..MaxLimit],
        s \in {[sort |-> SortName], [sort |-> SortLight], [sort |-> SortZone],
               [page |-> 1]},
        w \in {[waterNeeds |-> <<Low>>], [page |-> 1]}}

StorageFilters == CategoryFilters \cup PagingFilters

\* query strings of GET /api/plants
ApiQueries ==
    {[growZones |-> <<"6">>],
     [growZones |-> <<"6","a",",","5","a">>],
     [lightLevels |-> Low],
     [lightLevels |-> FullSun \o Comma \o MostlyShade],
     [heights |-> Tall],
     [heightTexts |-> Tall],
     [heights |-> Short \o Comma \o Tall, waterNeeds |-> Low],
     [waterNeeds |-> Low \o Comma \o High, sort |-> SortName],
     [bloomSeasons |-> Summer, search |-> <<>>],
     [search |-> <<"r","o">>, sort |-> SortZone]}
    \cup {[page |-> IntText(p), limit |-> IntText(l)] : p \in 1..MaxPage, l \in 1..MaxLimit}
    \cup {[page |-> <<"0">>], [page |-> <<"x">>], [page |-> <<"2","x">>],
          [limit |-> <<"0">>], [limit |-> <<"1","0","1">>], [limit |-> <<"1","0","0">>],
          [sort |-> <<"i","d">>], [sort |-> <<>>]}

---------------------------------------------------------------------------
(* The state machine *)

Init ==
    /\ plants = <<>>
    /\ plantSeq = 0
    /\ zones = <<>>
    /\ bloomSeasons = <<>>
    /\ plantZones = <<>>
    /\ plantBloomSeasons = <<>>
    /\ plantLightLevels = <<>>
    /\ uploaded = 0
    /\ calls = <<>>
    /\ importers = [p \in Importers |-> ImporterAtStart]
    /\ garden = GardenAtMount
    /\ scroll = ScrollUnmounted
    /\ responses = <<>>

Next ==
    \/ UploadRecord
    \/ \E p \in PlantPayloads : CreatePlant(p)
    \/ PopulatePlantLightLevels
    \/ \E f \in StorageFilters : StorageGetPlants(f)
    \/ \E q \in ApiQueries : ApiGetPlants(q)
    \/ ReceiveResponse

Spec == Init /\ [][Next]_vars

---------------------------------------------------------------------------
(* The store under creation, edits and deletion of single plants *)

ImagePng == <<"i","m","a","g","e","/","p","n","g">>

\* the :id parameters of the requests: every id the store can hold and one more
IdTexts == {IntText(i) : i \in 1..(MaxPlants + 1)}

\* the :id parameters of PUT and of the image upload
EditedIdTexts == {IntText(1), IntText(MaxPlants + 1)}

\* bodies of PUT /api/plants/:id: a valid one, one with a number for the name,
\* and a valid one that also carries an id and sets heightText to null
PutBodies ==
    {[waterNeeds |-> [type |-> "string", value |-> High]],
     [name |-> [type |-> "number", value |-> <<"5">>],
      waterNeeds |-> [type |-> "string", value |-> High]],
     [id |-> [type |-> "number", value |-> MaxPlants + 1],
      heightText |-> [type |-> "null", value |-> <<>>]]}

TextPlain == <<"t","e","x","t","/","p","l","a","i","n">>

\* the file part of the image upload: none, a small image, a text file
Files == {<<>>, <<[mimetype |-> ImagePng, buffer |-> <<77, 97>>]>>,
          <<[mimetype |-> TextPlain, buffer |-> <<77, 97>>]>>}

JsonString(v) == [type |-> "string", value |-> v]
JsonNull == [type |-> "null", value |-> <<>>]
JsonNumber(n) == [type |-> "number", value |-> n]

\* bodies of POST /api/plants: every column; the required columns with
\* heightText null, an id and a key the schema does not know; a number for the name
PostBodies ==
    {[name |-> JsonString(<<"B">>), scientificName |-> JsonString(<<"a","b">>),
      description |-> JsonString(<<"y">>), lightLevel |-> JsonString(Low),
      waterNeeds |-> JsonString(Medium), bloomTime |-> JsonString(Spring),
      height |-> JsonString(<<"2">>), width |-> JsonString(<<"1">>),
      heightText |-> JsonString(Tall), imageUrl |-> JsonString(<<"u">>)],
     [name |-> JsonString(<<"c">>), scientificName |-> JsonString(<<>>),
      description |-> JsonString(<<"y">>), lightLevel |-> JsonString(Low),
      waterNeeds |-> JsonString(Low), bloomTime |-> JsonString(Summer),
      height |-> JsonString(<<"2">>), width |-> JsonString(<<"1">>),
      heightText |-> JsonNull, id |-> JsonNumber(MaxPlants + 1),
      genus |-> JsonString(<<"g">>)],
     [name |-> JsonNumber(MaxPlants), scientificName |-> JsonString(<<"a","b">>),
      description |-> JsonString(<<"y">>), lightLevel |-> JsonString(Low),
      waterNeeds |-> JsonString(Medium), bloomTime |-> JsonString(Spring),
      height |-> JsonString(<<"2">>), width |-> JsonString(<<"1">>)]}

NextCrud ==
    \/ UploadRecord
    \/ \E p \in PlantPayloads : CreatePlant(p)
    \/ \E body \in PostBodies : ApiPostPlant(body)
    \/ \E id \in IdTexts : ApiGetPlant(id)
    \/ \E id \in EditedIdTexts : \E body \in PutBodies : ApiPutPlant(id, body)
    \/ \E id \in IdTexts : ApiDeletePlant(id)
    \/ \E id \in EditedIdTexts : \E file \in Files : ApiUploadImage(id, file)
    \/ ReceiveResponse

SpecCrud == Init /\ [][NextCrud]_vars

---------------------------------------------------------------------------
(* getPlants calls that overlap: a call waits for findMany, runs on the rows *)
(* it got, and returns                                                       *)

\* getPlants from `let filteredPlants = plantsWithZones` on, for the rows the
\* call's findMany delivered
getPlantsOn(rows, filter) ==
    LET all == SortPlants(FilterPlants(rows, filter), filter)
        totalCount == Len(all)
        page == PageOf(filter)
        limit == LimitOf(filter)
        totalPages == TotalPages(totalCount, limit)
    IN  [plants |-> Paginate(all, page, limit),
         totalCount |-> totalCount,
         currentPage |-> page,
         totalPages |-> totalPages,
         hasNextPage |-> HasNextPage(page, totalPages),
         hasPreviousPage |-> HasPreviousPage(page)]

\* variant: the filter spec is kept in a field that all calls share
CallFilterShared(cs, k) == cs[Len(cs)].filter

\* the parameter `filter` of the k-th call in flight
CallFilter(cs, k) == cs[k].filter

RemoveAt(seq, k) == SubSeq(seq, 1, k - 1) \o SubSeq(seq, k + 1, Len(seq))

\* storage.getPlants(filter) is called: the query is sent, the call awaits it
CallGetPlants(filter) ==
    /\ responses = <<>>
    /\ Len(calls) < MaxCalls
    /\ calls' = Append(calls, [filter |-> filter, pc |-> "findMany"])
    /\ UNCHANGED <<dbVars, responses, importers, garden, scroll>>

\* the database answers the k-th call's findMany with the rows it holds now
FindManyResolves(k) ==
    /\ responses = <<>>
    /\ calls[k].pc = "findMany"
    /\ calls' = [calls EXCEPT ![k] =
                    [filter |-> calls[k].filter, pc |-> "filter",
                     plantsWithZones |-> plantsWithZones]]
    /\ UNCHANGED <<dbVars, responses, importers, garden, scroll>>

\* the k-th call filters, sorts and slices its rows and returns
ReturnGetPlants(k) ==
    /\ responses = <<>>
    /\ calls[k].pc = "filter"
    /\ responses' = <<[kind |-> "call", filter |-> calls[k].filter, status |-> 200,
                       plantsWithZones |-> calls[k].plantsWithZones,
                       body |-> getPlantsOn(calls[k].plantsWithZones,
                                            CallFilter(calls, k))]>>
    /\ calls' = RemoveAt(calls, k)
    /\ UNCHANGED <<dbVars, importers, garden, scroll>>

\* the filter specs of the overlapping calls
CallFilters ==
    {[page |-> MinPage, limit |-> DefaultLimit],
     [sort |-> SortName, page |-> MinPage, limit |-> DefaultLimit],
     [waterNeeds |-> <<Low>>, sort |-> SortZone, page |-> MinPage, limit |-> MinLimit]}

NextCalls ==
    \/ UploadRecord
    \/ \E p \in PlantPayloads : CreatePlant(p)
    \/ \E f \in CallFilters : CallGetPlants(f)
    \/ \E k \in 1..Len(calls) : FindManyResolves(k)
    \/ \E k \in 1..Len(calls) : ReturnGetPlants(k)
    \/ ReceiveResponse

SpecCalls == Init /\ [][NextCalls]_vars

---------------------------------------------------------------------------
(* Two runs of uploadFromCSV side by side *)

NextImport ==
    \/ \E p \in Importers : ImportInsertPlant(p)
    \/ \E p \in Importers : ImportSelect(p)
    \/ \E p \in Importers : ImportInsert(p)
    \/ \E p \in Importers : ImportLink(p)
    \/ \E p \in Importers : ImportKilled(p)

SpecImport == Init /\ [][NextImport]_vars

---------------------------------------------------------------------------
(* The catalogue after uploads and runs of the fix scripts *)

SixA == <<"6","a">>
SixB == <<"6","b">>

\* filter specs on the relations the fix scripts write to
FixFilters ==
    {[growZones |-> <<SixA, SixB>>, page |-> MinPage, limit |-> DefaultLimit],
     [growZones |-> <<SixA>>, bloomSeasons |-> <<Summer, Spring>>,
      page |-> MinPage, limit |-> DefaultLimit],
     [bloomSeasons |-> <<Summer>>, page |-> MinPage, limit |-> MinLimit],
     [bloomSeasons |-> <<Summer>>, page |-> MinPage + 1, limit |-> MinLimit]}

NextFix ==
    \/ UploadRecord
    \/ FixZones
    \/ FixAllBloomSeasons
    \/ \E f \in FixFilters : StorageGetPlants(f)
    \/ ReceiveResponse

SpecFix == Init /\ [][NextFix]_vars

---------------------------------------------------------------------------
(* The garden designer under its buttons and the mouse *)

\* getBoundingClientRect of the canvas container: a wide window, and a window
\* so narrow that the palette leaves the container 84 pixels
Layouts ==
    {[left |-> 20, top |-> 60, width |-> 600, height |-> 500],
     [left |-> 20, top |-> 60, width |-> 84, height |-> 500]}

\* selectedPlants: a short name and a name of 24 letters
PalettePlants ==
    {[id |-> 1, name |-> <<"b">>], [id |-> 2, name |-> [i \in 1..24 |-> "a"]]}

Pointers ==
    {[clientX |-> -50, clientY |-> -50], [clientX |-> 200, clientY |-> 300],
     [clientX |-> 900, clientY |-> 900]}

Grabs == {[x |-> 40, y |-> 40]}

\* Date.now() at two clicks: the same millisecond, or a later one
Timestamps == {1, 2}

NextGarden ==
    \/ \E rect \in Layouts : OpenPanel(rect)
    \/ ClosePanel
    \/ \E plant \in PalettePlants, rx \in Halves, ry \in Halves, rr \in Halves,
          now \in Timestamps : addPlantToGarden(plant, rx, ry, rr, now)
    \/ \E plantId \in Timestamps, grab \in Grabs : startDrag(plantId, grab)
    \/ \E e \in Pointers : handleDrag(e)
    \/ endDrag
    \/ \E plantId \in Timestamps : rotatePlant(plantId)
    \/ \E plantId \in Timestamps : removePlantFromGarden(plantId)
    \/ clearGarden

SpecGarden == Init /\ [][NextGarden]_vars

---------------------------------------------------------------------------
(* The infinite-scroll client on a catalogue that does not change *)

MaxCataloguePages == 2

\* the sizes of the catalogue: empty, one plant, and a full page and one plant
\* more than a full page for every number of pages
CatalogueSizes ==
    {0, 1} \cup {k * ClientLimit : k \in 1..MaxCataloguePages}
           \cup {k * ClientLimit + 1 : k \in 1..MaxCataloguePages}

CatalogueZones == <<SixA, SixB, <<"5">>>>

\* plant i of the catalogue: names out of id order, and the same name again
\* after 26 plants
CataloguePlant(i) ==
    PlantRow(i, <<LowerChars[((i * 7) % 26) + 1]>>, <<"R","o">>,
             IF i % 4 = 0 THEN <<"o"," ","z">> ELSE <<"x">>,
             FullSun, IF i % 3 = 0 THEN Low ELSE IF i % 3 = 1 THEN Medium ELSE High,
             <<>>)

\* plant i grows in zone (i mod 3) + 1, every fifth plant in a second zone too
RECURSIVE CatalogueLinks(_)
CatalogueLinks(n) ==
    IF n = 0 THEN <<>>
    ELSE CatalogueLinks(n - 1)
         \o <<[plantId |-> n, zoneId |-> (n % 3) + 1]>>
         \o (IF n % 5 = 0 THEN <<[plantId |-> n, zoneId |-> ((n + 1) % 3) + 1]>>
             ELSE <<>>)

InitScroll ==
    /\ \E n \in CatalogueSizes :
          /\ plants = [i \in 1..n |-> CataloguePlant(i)]
          /\ plantSeq = n
          /\ plantZones = CatalogueLinks(n)
    /\ zones = CatalogueZones
    /\ bloomSeasons = <<>>
    /\ plantBloomSeasons = <<>>
    /\ plantLightLevels = <<>>
    /\ uploaded = 0
    /\ calls = <<>>
    /\ importers = [p \in Importers |-> ImporterAtStart]
    /\ garden = GardenAtMount
    /\ scroll = ScrollUnmounted
    /\ responses = <<>>

\* the filter Home starts with, and filters its controls set
HomeFilter ==
    [search |-> <<>>, lightLevels |-> <<>>, waterNeeds |-> <<>>, growZones |-> <<>>,
     bloomSeasons |-> <<>>, heights |-> <<>>, sort |-> SortName, page |-> 1,
     limit |-> ClientLimit]

ScrollFilters ==
    {HomeFilter,
     [HomeFilter EXCEPT !.waterNeeds = <<Low, High>>],
     [HomeFilter EXCEPT !.growZones = <<SixA, SixB>>, !.sort = SortZone],
     [HomeFilter EXCEPT !.search = <<"o"," ","z">>],
     [HomeFilter EXCEPT !.search = <<"q">>]}

NextScroll ==
    \/ \E filter \in ScrollFilters : MountScroll(filter)
    \/ ServeScroll
    \/ QuerySettled
    \/ FetchNextPageFinally
    \/ \E nearBottom \in BOOLEAN : handleScroll(nearBottom)
    \/ loadMore

SpecScroll == InitScroll /\ [][NextScroll]_vars

---------------------------------------------------------------------------
(* The two stores asked for the same listing *)

\* filters on search, waterNeeds and growZones, sorted by name or by zone
StoreFilters ==
    {[page |-> 1, limit |-> MaxLimit],
     [search |-> <<"R","O">>, sort |-> SortName, page |-> 1, limit |-> MaxLimit],
     [waterNeeds |-> <<Low>>, sort |-> SortName, page |-> 1, limit |-> MinLimit],
     [waterNeeds |-> <<Cap(Low), High>>, page |-> 1, limit |-> MaxLimit],
     [growZones |-> <<SixA, <<"6">>>>, sort |-> SortZone, page |-> 1, limit |-> MaxLimit],
     [growZones |-> <<SixB>>, waterNeeds |-> <<Low, Medium>>, sort |-> SortZone,
      page |-> 2, limit |-> MinLimit]}

NextStores ==
    \/ UploadRecord
    \/ \E p \in PlantPayloads : CreatePlant(p)
    \/ \E f \in StoreFilters : StorageGetPlants(f)
    \/ \E f \in StoreFilters : MemStorageGetPlants(f)
    \/ ReceiveResponse

SpecStores == Init /\ [][NextStores]_vars

---------------------------------------------------------------------------
(* Properties of the listing *)

Range(seq) == {seq[i] : i \in 1..Len(seq)}
Ids(ps) == {ps[i].id : i \in 1..Len(ps)}

\* a getPlants result is on its way to the caller
Answered == responses # <<>> /\ responses[1].status = 200
Resp == responses[1]

\* a category constrains the listing when its text or value-list is not empty
Active(filter, key) == Has(filter, key) /\ filter[key] # <<>>

\* text occurs in field when case is ignored
OccursIn(text, field) ==
    \E i \in 1..(Len(field) + 1) : \E j \in (i - 1)..Len(field) :
        ToLowerCase(SubSeq(field, i, j)) = ToLowerCase(text)

\* at least one value of the category's value-list matches the plant
Satisfies(plant, filter, key) ==
    CASE key = "search" ->
            \/ OccursIn(filter.search, plant.name)
            \/ OccursIn(filter.search, plant.scientificName)
            \/ OccursIn(filter.search, plant.description)
      [] key = "lightLevels" ->
            Range(filter.lightLevels) \cap Range(plant.plantLightLevels) # {}
      [] key = "waterNeeds" -> plant.waterNeeds \in Range(filter.waterNeeds)
      [] key = "growZones" -> Range(filter.growZones) \cap Range(plant.plantZones) # {}
      [] key = "bloomSeasons" ->
            Range(filter.bloomSeasons) \cap Range(plant.plantBloomSeasons) # {}
      [] key = "heightTexts" ->
            Has(plant, "heightText") /\ plant.heightText \in Range(filter.heightTexts)

\* the plants that satisfy every active category among keys
Matching(filter, keys) ==
    {plant \in Range(plantsWithZones) :
        \A key \in keys : Active(filter, key) => Satisfies(plant, filter, key)}

OnlyActive(filter, key) ==
    Active(filter, key) /\ \A other \in CategoryKeys \ {key} : ~Active(filter, other)

\* C1: the returned plants array has length
\* min(limit, max(0, totalCount - (page-1)*limit)); a page beyond the last page
\* is an empty array, not an error.
C1_PageLength ==
    Answered =>
        LET f == Resp.filter
            b == Resp.body
        IN  Len(b.plants) = Min(f.limit, Max(0, b.totalCount - (f.page - 1) * f.limit))

C1_Witness ==
    /\ Answered
    /\ Resp.body.totalCount > 0
    /\ Resp.filter.page > Resp.body.totalPages
    /\ Resp.body.plants = <<>>

\* C2: totalCount is the number of plants that pass the search and category
\* filters, whatever page and limit are.
C2_TotalCount ==
    Answered =>
        Resp.body.totalCount =
            Cardinality({i \in 1..Len(plants) :
                plantsWithZones[i] \in Matching(Resp.filter, CategoryKeys)})

C2_Witness ==
    /\ Answered
    /\ Len(Resp.body.plants) < Resp.body.totalCount
    /\ Resp.body.totalCount < Len(plants)
    /\ Resp.filter.page > 1

\* C3: totalPages is the ceiling of totalCount / limit, and is 0 exactly when
\* totalCount is 0.
C3_TotalPages ==
    Answered =>
        LET tp == Resp.body.totalPages
            tc == Resp.body.totalCount
            l == Resp.filter.limit
        IN  /\ tp * l >= tc
            /\ (tp - 1) * l < tc
            /\ (tp = 0) <=> (tc = 0)

C3_Witness ==
    /\ Answered
    /\ Resp.body.totalCount % Resp.filter.limit # 0
    /\ Resp.body.totalPages >= 2

\* C4: hasNextPage is currentPage < totalPages, hasPreviousPage is
\* currentPage > 1, and hasNextPage says that a matching plant lies after the
\* returned slice.
C4_PageFlags ==
    Answered =>
        LET b == Resp.body
            f == Resp.filter
        IN  /\ b.currentPage = f.page
            /\ b.hasNextPage <=> (b.currentPage < b.totalPages)
            /\ b.hasPreviousPage <=> (b.currentPage > 1)
            /\ b.hasNextPage <=>
                  (\E rank \in 1..Len(filteredPlants(f)) : rank > f.page * f.limit)

C4_Witness ==
    /\ Answered
    /\ Resp.body.hasNextPage
    /\ Resp.body.hasPreviousPage

RECURSIVE PagesUpTo(_, _)
\* the pages 1..n of separate getPlants calls, one after the other
PagesUpTo(filter, n) ==
    IF n = 0 THEN <<>>
    ELSE PagesUpTo(filter, n - 1) \o getPlants([filter EXCEPT !.page = n]).plants

\* C5: page p holds the plants ranked (p-1)*limit+1 .. p*limit of the filtered
\* and sorted sequence; pages 1..totalPages one after the other are that
\* sequence, every matching plant once.
C5_PagesPartition ==
    Answered =>
        LET f == Resp.filter
            b == Resp.body
            full == filteredPlants(f)
            ranks == {r \in 1..Len(full) :
                         (f.page - 1) * f.limit + 1 <= r /\ r <= f.page * f.limit}
            all == PagesUpTo(f, b.totalPages)
        IN  /\ Len(b.plants) = Cardinality(ranks)
            /\ \A i \in 1..Len(b.plants) : b.plants[i] = full[(f.page - 1) * f.limit + i]
            /\ all = full
            /\ Ids(all) = {plant.id : plant \in Matching(f, CategoryKeys)}
            /\ Cardinality(Ids(all)) = Len(all)

C5_Witness ==
    /\ Answered
    /\ Has(Resp.filter, "sort")
    /\ Resp.filter.page = 2
    /\ Resp.body.totalPages >= 3
    /\ Len(Resp.body.plants) >= 1

\* C6: a plant is in the filtered set exactly when it satisfies every active
\* category; a category is satisfied when one of its values matches the plant.
C6_AndAcrossOrWithin ==
    Answered =>
        Ids(FilterPlants(plantsWithZones, Resp.filter))
            = {plant.id : plant \in Matching(Resp.filter, CategoryKeys)}

C6_Witness ==
    /\ Answered
    /\ \E k1 \in CategoryKeys : \E k2 \in CategoryKeys \ {k1} :
          /\ Active(Resp.filter, k1) /\ Active(Resp.filter, k2)
          /\ Len(Resp.filter[k1]) = 2
          /\ \E plant \in Range(plantsWithZones) :
                /\ Satisfies(plant, Resp.filter, k1)
                /\ ~Satisfies(plant, Resp.filter, k2)
                /\ plant.id \notin Ids(Resp.body.plants)
    /\ Resp.body.plants # <<>>

ListKeys == CategoryKeys \ {"search"}
Without(filter, key) == [k \in (DOMAIN filter) \ {key} |-> filter[k]]

\* C7: an empty or omitted value-list constrains nothing: the filtered set is
\* the one the other categories give, plants without the attribute included.
C7_EmptyListNoConstraint ==
    Answered =>
        \A key \in ListKeys :
            ~Active(Resp.filter, key) =>
                /\ Ids(FilterPlants(plantsWithZones, Resp.filter))
                      = {plant.id : plant \in Matching(Resp.filter, CategoryKeys \ {key})}
                /\ FilterPlants(plantsWithZones, Resp.filter)
                      = FilterPlants(plantsWithZones, Without(Resp.filter, key))

C7_Witness ==
    /\ Answered
    /\ Has(Resp.filter, "heightTexts") /\ Resp.filter.heightTexts = <<>>
    /\ Has(Resp.filter, "growZones") /\ Resp.filter.growZones = <<>>
    /\ \E i \in 1..Len(Resp.body.plants) :
          /\ ~Has(Resp.body.plants[i], "heightText")
    /\ \E i \in 1..Len(Resp.body.plants) :
          /\ Resp.body.plants[i].plantZones = <<>>

\* a bare zone number matches a label that is the number plus a sub-zone letter
BareZoneMatches(value, label) == label \in {value \o <<"a">>, value \o <<"b">>}

\* C8: with growZones = ["6"] a plant with zones 6a and 6b is in the filtered
\* set and a plant with zone 5a only is not.
C8_BareZoneNumber ==
    (Answered /\ OnlyActive(Resp.filter, "growZones")
        /\ Resp.filter.growZones = << <<"6">> >>) =>
        \A plant \in Range(plantsWithZones) :
            (\E label \in Range(plant.plantZones) : BareZoneMatches(<<"6">>, label))
                => plant.id \in Ids(FilterPlants(plantsWithZones, Resp.filter))

C10_HeightListApplied ==
    \A param \in {"heights", "heightTexts"} :
        (Answered /\ Resp.kind = "api" /\ Truthy(Resp.query, param)) =>
            \A i \in 1..Len(Resp.body.plants) :
                /\ Has(Resp.body.plants[i], "heightText")
                /\ Resp.body.plants[i].heightText \in Range(Split(Resp.query[param], ","))

\* C11: with search text given, the filtered set is the plants whose name,
\* scientific name or description contains the text when case is ignored;
\* with empty or absent search text the search excludes no plant.
C11_SearchSubstring ==
    Answered =>
        LET f == Resp.filter
            hits == {plant \in Range(plantsWithZones) :
                        \/ OccursIn(f.search, plant.name)
                        \/ OccursIn(f.search, plant.scientificName)
                        \/ OccursIn(f.search, plant.description)}
        IN  /\ OnlyActive(f, "search") =>
                /\ Ids(filteredPlants(f)) = {plant.id : plant \in hits}
                /\ Resp.body.totalCount = Cardinality({plant.id : plant \in hits})
            /\ ~Active(f, "search") => SearchFilter(plantsWithZones, f) = plantsWithZones

C11_Witness ==
    /\ Answered
    /\ OnlyActive(Resp.filter, "search")
    /\ \E i \in 1..Len(Resp.filter.search) : IsUpper(Resp.filter.search[i])
    /\ Resp.body.totalCount < Len(plants)
    /\ \E i \in 1..Len(Resp.body.plants) :
          LET plant == Resp.body.plants[i] IN
          /\ ~OccursIn(Resp.filter.search, plant.name)
          /\ ~OccursIn(Resp.filter.search, plant.scientificName)
          /\ OccursIn(Resp.filter.search, plant.description)

\* the values a value-list of the category may hold
ListValues(key) == UNION {Range(list) : list \in CategoryOptions(key)}

\* the filter spec with only the given categories kept (paging and sort stay)
Only(filter, keys) ==
    [k \in (DOMAIN filter) \ (CategoryKeys \ keys) |-> filter[k]]

\* C12: adding a value to a non-empty value-list never lowers totalCount, and
\* with two active categories totalCount is at most the totalCount of the
\* spec with either category alone.
C12_Monotonic ==
    Answered =>
        LET f == Resp.filter
            n == Resp.body.totalCount
        IN  /\ \A key \in ListKeys : Active(f, key) =>
                  \A v \in ListValues(key) :
                      getPlants([f EXCEPT ![key] = Append(@, v)]).totalCount >= n
            /\ \A k1 \in CategoryKeys : \A k2 \in CategoryKeys \ {k1} :
                  (Active(f, k1) /\ Active(f, k2)) =>
                      /\ n <= getPlants(Only(f, {k1})).totalCount
                      /\ n <= getPlants(Only(f, {k2})).totalCount

C12_Witness ==
    /\ Answered
    /\ \E k1 \in ListKeys : \E k2 \in CategoryKeys \ {k1} :
          /\ Active(Resp.filter, k1) /\ Active(Resp.filter, k2)
          /\ Resp.body.totalCount < getPlants(Only(Resp.filter, {k1})).totalCount
          /\ Resp.body.totalCount < getPlants(Only(Resp.filter, {k2})).totalCount
          /\ \E v \in ListValues(k1) :
                getPlants([Resp.filter EXCEPT ![k1] = Append(@, v)]).totalCount
                    > Resp.body.totalCount

\* the names of the stored plants
Names == {plants[i].name : i \in 1..Len(plants)}

\* LocaleCompare orders the names consistently: a total preorder
Consistent(S) ==
    /\ \A a \in S : \A b \in S : LocaleCompare(a, b) = -LocaleCompare(b, a)
    /\ \A a \in S : \A b \in S : \A c \in S :
          (LocaleCompare(a, b) <= 0 /\ LocaleCompare(b, c) <= 0) => LocaleCompare(a, c) <= 0

\* C13: with sort = name the sequence getPlants slices holds the matching
\* plants in non-decreasing order of name under localeCompare, which orders
\* the names consistently.
C13_SortByName ==
    (Answered /\ Has(Resp.filter, "sort") /\ Resp.filter.sort = SortName) =>
        LET full == filteredPlants(Resp.filter) IN
        /\ Consistent(Names)
        /\ \A i \in 1..Len(full) : \A j \in (i + 1)..Len(full) :
              LocaleCompare(full[i].name, full[j].name) <= 0
        /\ Ids(full) = {plant.id : plant \in Matching(Resp.filter, CategoryKeys)}
        /\ Len(full) = Cardinality(Ids(full))

C13_Witness ==
    /\ Answered
    /\ Has(Resp.filter, "sort") /\ Resp.filter.sort = SortName
    /\ Len(filteredPlants(Resp.filter)) = 3
    /\ filteredPlants(Resp.filter) # FilterPlants(plantsWithZones, Resp.filter)
    /\ \E i \in 1..2 :
          LET full == filteredPlants(Resp.filter) IN
          ToLowerCase(full[i].name) = ToLowerCase(full[i + 1].name)

\* the number of a zone label: the label without its trailing sub-zone letter
ZoneNumber(label) ==
    LET last == label[Len(label)]
        digits == IF IndexOf(last, DigitChars) = 0
                  THEN SubSeq(label, 1, Len(label) - 1) ELSE label
    IN  DigitsValue(digits, 0)

\* the smallest zone number of a plant that has zones
MinZoneNumber(plant) ==
    LET numbers == {ZoneNumber(plant.plantZones[i]) : i \in 1..Len(plant.plantZones)}
    IN  CHOOSE n \in numbers : \A m \in numbers : n <= m

\* C14: with sort = zone the sequence getPlants slices is non-decreasing in
\* the plants' minimum zone number; the plants without zones all come after
\* the plants with zones, and leaving them out leaves the order of the others
\* as it is.
C14_SortByZone ==
    (Answered /\ Has(Resp.filter, "sort") /\ Resp.filter.sort = SortZone) =>
        LET full == filteredPlants(Resp.filter)
            zoned(ps) == SelectSeq(ps, LAMBDA plant : plant.plantZones # <<>>)
        IN  /\ \A i \in 1..Len(full) : \A j \in (i + 1)..Len(full) :
                  /\ (full[i].plantZones # <<>> /\ full[j].plantZones # <<>>)
                        => MinZoneNumber(full[i]) <= MinZoneNumber(full[j])
                  /\ full[i].plantZones = <<>> => full[j].plantZones = <<>>
            /\ zoned(full)
                  = ArraySort(zoned(FilterPlants(plantsWithZones, Resp.filter)), SortZone)
            /\ Ids(full) = {plant.id : plant \in Matching(Resp.filter, CategoryKeys)}

C14_Witness ==
    /\ Answered
    /\ Has(Resp.filter, "sort") /\ Resp.filter.sort = SortZone
    /\ LET full == filteredPlants(Resp.filter) IN
       /\ Len(full) = 3
       /\ full # FilterPlants(plantsWithZones, Resp.filter)
       /\ full[1].plantZones # <<>> /\ full[2].plantZones # <<>>
       /\ full[3].plantZones = <<>>
       /\ MinZoneNumber(full[1]) < MinZoneNumber(full[2])
       /\ \E i \in 1..2 : ZoneNumber(full[i].plantZones[1]) > MinZoneNumber(full[i])

\* the fixed order of the light levels, lowest first
LightScale == <<FullShade, MostlyShade, HalfSunHalfShade, MostlySun, FullSun>>

\* the rank of the highest-ranked light level of a plant that has levels
MaxLightRank(plant) ==
    LET ranks == {IndexOf(plant.plantLightLevels[i], LightScale) :
                     i \in 1..Len(plant.plantLightLevels)}
    IN  CHOOSE r \in ranks : \A q \in ranks : q <= r

\* C15: with sort = light the sequence getPlants slices is non-decreasing in
\* the rank of each plant's highest-ranked light level; plants without a
\* light level come before the others.
C15_SortByLight ==
    (Answered /\ Has(Resp.filter, "sort") /\ Resp.filter.sort = SortLight) =>
        LET full == filteredPlants(Resp.filter) IN
        /\ \A i \in 1..Len(full) : \A j \in (i + 1)..Len(full) :
              /\ (full[i].plantLightLevels # <<>> /\ full[j].plantLightLevels # <<>>)
                    => MaxLightRank(full[i]) <= MaxLightRank(full[j])
              /\ full[j].plantLightLevels = <<>> => full[i].plantLightLevels = <<>>
        /\ Ids(full) = {plant.id : plant \in Matching(Resp.filter, CategoryKeys)}

C15_Witness ==
    /\ Answered
    /\ Has(Resp.filter, "sort") /\ Resp.filter.sort = SortLight
    /\ LET full == filteredPlants(Resp.filter) IN
       /\ Len(full) = 3
       /\ full # FilterPlants(plantsWithZones, Resp.filter)
       /\ \A i \in 1..3 : full[i].plantLightLevels # <<>>
       /\ MaxLightRank(full[1]) < MaxLightRank(full[3])
       /\ Len(full[3].plantLightLevels) = 2

\* the place of the plant with this id in the order the table is read in
ScanPlace(id) == CHOOSE i \in 1..Len(plants) : plants[i].id = id

IsNumeral(text) ==
    text # <<>> /\ \A i \in 1..Len(text) : IndexOf(text[i], DigitChars) > 0

\* the query has a page that is no number or below 1, a limit that is no number
\* or outside 1..100, or a sort key that is none of name, light, zone
Malformed(query) ==
    \/ Truthy(query, "page")
          /\ (~IsNumeral(query.page) \/ DigitsValue(query.page, 0) < MinPage)
    \/ Truthy(query, "limit")
          /\ (~IsNumeral(query.limit)
                \/ DigitsValue(query.limit, 0) < MinLimit
                \/ DigitsValue(query.limit, 0) > MaxLimitAllowed)
    \/ Has(query, "sort") /\ query.sort \notin {SortName, SortLight, SortZone}

\* C18: GET /api/plants with a malformed page, limit or sort answers 400 and
\* getPlants is not called; no malformed value is taken for a valid one.
C18_MalformedRejected ==
    (responses # <<>> /\ Resp.kind = "api" /\ Malformed(Resp.query)) =>
        /\ Resp.status = 400
        /\ ~Has(Resp, "body")

\* a request that names one plant has just been answered: the answer
AnsweredById == responses = <<>> /\ responses' # <<>>
                    /\ responses'[1].kind \in {"get", "put", "delete", "image"}

\* the :id of the answered request named no stored plant when it arrived
NamedNoPlant == FindPlant(ParseInt(responses'[1].id).v) = 0

\* the request failed validation: a PUT body with a bad field, an upload without a file
FailedValidation(resp) ==
    \/ resp.kind = "put" /\ partialPlantSchemaErrors(resp.request) # {}
    \/ resp.kind = "image" /\ resp.request = <<>>

RejectedByFilter(resp) ==
    resp.kind = "image" /\ resp.request # <<>> /\ ~fileFilter(resp.request[1])

GeneratedKeys == {"id", "plantZones", "plantLightLevels", "plantBloomSeasons"}

\* C21: after POST /api/plants has created a plant from a valid payload, the
\* plant fetched under the returned id has, for every column of the payload,
\* the payload's value (NULL for null), and no other column with a value.
C21_RoundTrip ==
    (responses # <<>> /\ Resp.kind = "post" /\ Resp.status = 201) =>
        LET fetched == getPlant(ParseInt(IntText(Resp.body.id)).v)
            payload == Resp.request
        IN  /\ fetched # <<>>
            /\ \A k \in (DOMAIN payload) \cap PlantColumns :
                  IF payload[k].type = "null" THEN ~Has(fetched[1], k)
                  ELSE Has(fetched[1], k) /\ fetched[1][k] = payload[k].value
            /\ (DOMAIN fetched[1]) \ GeneratedKeys \subseteq DOMAIN payload

C21_Witness ==
    /\ responses # <<>> /\ Resp.kind = "post" /\ Resp.status = 201
    /\ Has(Resp.request, "heightText") /\ Resp.request.heightText.type = "string"
    /\ Has(Resp.request, "imageUrl")
    /\ Len(plants) >= 2
    /\ plants[1].id # Resp.body.id
    /\ \E i \in 1..Len(plants) : Has(plants[i], "name") /\ plants[i].name = <<"c">>

\* a PUT or an image upload has just been answered
Edited == responses = <<>> /\ responses' # <<>>
              /\ responses'[1].kind \in {"put", "image"}

\* C22: a PUT /api/plants/:id or an image upload leaves every plant under the
\* id it had, body with an id included, and changes no plant but the one the
\* request names.
C22_IdImmutable ==
    [][Edited =>
          /\ Len(plants') = Len(plants)
          /\ \A i \in 1..Len(plants) :
                /\ plants'[i].id = plants[i].id
                /\ plants[i].id # ParseInt(responses'[1].id).v => plants'[i] = plants[i]]_vars

C22_Witness ==
    /\ responses # <<>> /\ Resp.kind = "put" /\ Resp.status = 200
    /\ Has(Resp.request, "id")
    /\ Resp.request.id.value # Resp.body.id
    /\ Len(plants) >= 2
    /\ FindPlant(Resp.body.id) > 0

\* the image columns of a plant row
ImageFields(row) ==
    [k \in {"imageUrl", "imageData", "imageMimeType"} \cap DOMAIN row |-> row[k]]

\* an image upload has just been answered that came without a file or with a
\* file whose MIME type is no image type
UploadWithoutImage ==
    /\ responses = <<>> /\ responses' # <<>>
    /\ responses'[1].kind = "image"
    /\ \/ responses'[1].request = <<>>
       \/ ~StartsWith(responses'[1].request[1].mimetype, ImagePrefix)

C24_ZoneLabelsUnique ==
    \A i, j \in 1..Len(zones) : zones[i] = zones[j] => i = j

\* both runs looked for one label, found none, and both went on to insert it
C24_Witness ==
    \E p \in Importers :
        /\ importers[p].pc = "exited"
        /\ importers[p].loop = "zones"
        /\ FindId(zones, Head(importers[p].todo)) > importers[p].ref

\* the run has stopped after it inserted a plant and before the last join row
\* of that plant was inserted
StoppedMidRecord(p) ==
    importers[p].pc \in {"killed", "exited"} /\ importers[p].plantId # 0

\* the values of a CSV cell that lead to a join row
LinkValues(cell) ==
    IF cell = <<>> THEN <<>>
    ELSE SelectSeq(TrimAll(Split(cell, ",")), LAMBDA v : v # <<>>)

\* C25: when a run of the import script has stopped between the insert of a
\* plant and the insert of the plant's last join row, the plant is in the
\* listing, with some but not all of the zones and seasons of its record.
C25_PartialImport ==
    \A p \in Importers :
        StoppedMidRecord(p) =>
            LET record == CsvRecords[importers[p].record]
                all == getPlants([page |-> MinPage, limit |-> DefaultLimit]).plants
                listed == SelectSeq(all, LAMBDA plant : plant.id = importers[p].plantId)
            IN  /\ Len(listed) = 1
                /\ Range(listed[1].plantZones) \subseteq Range(LinkValues(record.grow_zones))
                /\ Range(listed[1].plantBloomSeasons)
                       \subseteq Range(LinkValues(record.bloom_seasons))
                /\ Len(listed[1].plantZones) + Len(listed[1].plantBloomSeasons)
                       < Len(LinkValues(record.grow_zones))
                           + Len(LinkValues(record.bloom_seasons))

C25_Witness ==
    \E p \in Importers :
        /\ importers[p].pc = "killed"
        /\ importers[p].plantId # 0
        /\ importers[p].loop = "seasons"
        /\ \E row \in Range(plantZones) : row.plantId = importers[p].plantId
        /\ \A row \in Range(plantBloomSeasons) : row.plantId # importers[p].plantId

\* C26: no two plant_zones rows have one (plant, zone) pair and no two
\* plant_bloom_seasons rows have one (plant, season) pair, whatever scripts ran.
C26_NoDuplicateLinks ==
    /\ \A i, j \in 1..Len(plantZones) : plantZones[i] = plantZones[j] => i = j
    /\ \A i, j \in 1..Len(plantBloomSeasons) :
          plantBloomSeasons[i] = plantBloomSeasons[j] => i = j

\* C28: a getPlants result holds every plant at most once, in the filtered set
\* and in the page, and totalCount is the number of plants that satisfy the
\* filter spec, also for plants with several or repeated matching join rows.
C28_PlantListedOnce ==
    (Answered /\ Resp.kind = "storage") =>
        LET all == filteredPlants(Resp.filter)
            page == Resp.body.plants
        IN  /\ \A i, j \in 1..Len(all) : all[i].id = all[j].id => i = j
            /\ \A i, j \in 1..Len(page) : page[i].id = page[j].id => i = j
            /\ Resp.body.totalCount =
                   Cardinality({plant.id : plant \in Matching(Resp.filter, CategoryKeys)})

C28_Witness ==
    /\ Answered /\ Resp.kind = "storage"
    /\ Active(Resp.filter, "bloomSeasons")
    /\ \E n \in 1..Len(Resp.body.plants) :
          LET seasons == Resp.body.plants[n].plantBloomSeasons IN
          \E i, j \in 1..Len(seasons) :
              /\ i < j
              /\ seasons[i] = seasons[j]
              /\ seasons[i] \in Range(Resp.filter.bloomSeasons)
    /\ Resp.body.totalCount >= 2

---------------------------------------------------------------------------
(* C27: after any sequence of add, drag, rotate, remove and clear in the    *)
(* garden designer every placed plant lies within the canvas:               *)
(* 0 <= x <= canvasSize.width - width and 0 <= y <= canvasSize.height -     *)
(* height                                                                   *)
C27_WithinCanvas ==
    \A i \in 1..Len(garden.gardenPlants) :
        LET plant == garden.gardenPlants[i] IN
        /\ 0 <= plant.x /\ plant.x <= garden.canvasSize.width - plant.width
        /\ 0 <= plant.y /\ plant.y <= garden.canvasSize.height - plant.height

---------------------------------------------------------------------------
(* C29: on an unchanged catalogue and filter the infinite-scroll client     *)
(* requests the pages 1, 2, ... in order, each once and never two at a      *)
(* time, up to page totalPages (page 1 alone when nothing matches); until    *)
(* then a request is on its way or the next scroll or click sends one, and  *)
(* then nothing more is sent, hasNextPage is false and the accumulated list *)
(* is the whole filtered and sorted sequence of totalCount plants           *)
PagesSent ==
    [i \in 1..Len(scroll.sent) |-> ParseInt(UrlDecode(scroll.sent[i].page)).v]

WholeSequence == filteredPlants(scroll.filter)
WholePages == TotalPages(Len(WholeSequence), ClientLimit)

\* nothing is being fetched and there is no further page
ScrollComplete ==
    /\ scroll.mounted /\ scroll.pages # <<>>
    /\ scroll.fetching = <<>> /\ ~scroll.isFetchingNextPage
    /\ ~hasNextPage

\* a request is on its way, or the hook is about to clear its flag, or a scroll
\* or a click would send the next request
ScrollGoesOn ==
    \/ scroll.fetching # <<>>
    \/ scroll.isFetchingNextPage
    \/ hasNextPage /\ ~scroll.queryIsFetchingNextPage /\ ~scroll.isFetchingNextPage

ScrollSafe(lastPage) ==
    scroll.mounted =>
        /\ ~scroll.isError
        /\ PagesSent = [i \in 1..Len(scroll.sent) |-> i]
        /\ Len(scroll.sent) <= Len(scroll.pages) + 1
        /\ Len(scroll.sent) <= lastPage
        /\ \A i \in 1..Len(scroll.sent) :
              ParseInt(UrlDecode(scroll.sent[i].limit)).v = ClientLimit
        /\ ~ScrollComplete => ScrollGoesOn
        /\ ScrollComplete =>
              /\ Len(scroll.sent) = lastPage
              /\ allPlants = WholeSequence
              /\ scroll.pages[1].totalCount = Len(WholeSequence)
              /\ \A i \in 1..Len(scroll.pages) :
                    scroll.pages[i].totalPages = WholePages

---------------------------------------------------------------------------
(* C30: MemStorage.getPlants and DatabaseStorage.getPlants, on the same     *)
(* plants with the same zones and for a filter on search, waterNeeds,       *)
(* growZones, sort by name or zone, page and limit, return the same page of *)
(* plants and the same totalCount, totalPages, hasNextPage and              *)
(* hasPreviousPage                                                          *)
ListingFields == {"plants", "totalCount", "totalPages", "hasNextPage", "hasPreviousPage"}

C30_StoresAgree ==
    (Answered /\ Resp.kind = "mem") =>
        \A k \in ListingFields : Resp.body[k] = getPlants(Resp.filter)[k]

=============================================================================
